---- MODULE Spec2Model ----
(***************************************************************************)
(* Model of the SMS ingress of the AI-SMS server: the /sms webhook with    *)
(* its rate limiter and message-id deduplication, the periodic cleanup of  *)
(* the deduplication map, and the turn handling that follows admission.    *)
(*                                                                         *)
(* Two entry points of the repository carry the same guard:                *)
(*   "relay"  : src/index.js, fastify.post('/sms') at lines 828-936, which *)
(*              answers at once, keeps the history in smsConversations and *)
(*              hands the reply to the Make.com webhook;                   *)
(*   "direct" : src/index-supabase.js, fastify.post('/sms') at lines       *)
(*              479-592, which keeps the conversation in Supabase, sends   *)
(*              the reply through Twilio and answers at the end.           *)
(* A behaviour runs one of them (the variable variant).                    *)
(*                                                                         *)
(* Node runs every callback to completion, so an action is the code from   *)
(* one suspension point (await) to the next. A handler that is suspended   *)
(* is a frame in handlers; a handler that has returned leaves only the     *)
(* response it sent, in reqs.                                              *)
(***************************************************************************)
EXTENDS Integers, Sequences, FiniteSets, TLC

(* ------------------------- program constants -------------------------- *)

MESSAGE_DEDUPE_WINDOW_MS == 60000

RATE_LIMIT_MS == 1000

SWEEP_INTERVAL_MS == 30000

\* setTimeout(() => controller.abort(), 5000) of sendToWebhook
WEBHOOK_TIMEOUT_MS == 5000

\* The event types of the realtime provider that the bridge acts on.
TRANSCRIPTION_COMPLETED == "conversation.item.input_audio_transcription.completed"

RESPONSE_DONE == "response.done"

AUDIO_DELTA == "response.audio.delta"

\* The text of the Agent line when the response carries no transcript.
AGENT_NOT_FOUND == <<"Agent message not found">>

(* ------------------------------ bounds -------------------------------- *)

\* Date.now() when the process starts (any value far above RATE_LIMIT_MS).
StartTime == 100000

\* Number of inbound /sms requests of a behaviour.
MaxReq == 2

\* Number of runs of the cleanup timer of a behaviour.
MaxSweeps == 3

\* Requests arrive within this many ms after a run of the cleanup timer.
MaxOffset == 1000

\* The amount by which the clock advances between requests.
TickStep == 500

\* Phone numbers and MessageSid values, in the order in which a behaviour
\* first uses them (they are interchangeable, so this loses no case). A
\* phone number is the sequence of its characters.
SenderSeq == << <<"+", "1", "5", "5", "5", "1", "2", "3", "0", "0", "0", "1">>,
               <<"+", "1", "5", "5", "5", "1", "2", "3", "0", "0", "0", "2">> >>

SidSeq == <<"SM1", "SM2">>

\* A request without MessageSid.
NoSid == "none"

\* The From of a request body without From (the Map key undefined).
Undefined == <<"undefined">>

\* Number of /check-leads requests of a behaviour, and of leads of one.
MaxLeadReq == 1

MaxLeads == 2

\* Number of /message-status requests of a behaviour.
MaxStatusReq == 2

\* Number of dashboard sockets and of broadcasts of a behaviour.
MaxObservers == 3

MaxBroadcasts == 2

\* The client ids a dashboard connects with, and a URL without one.
ClientIds == {"a", "b"}

NoClientId == ""

\* Number of /api/question-answer requests of a behaviour.
MaxQaReq == 2

\* Length of the phone numbers given to the formatting, and the characters
\* they are made of: the plus sign, a digit, a character that is neither.
MaxRawLen == 10

RawChars == {"+", "5", "-"}

\* Number of sendToWebhook calls of a behaviour, the step of the clock while
\* they run, and how long after the start of the process they are followed.
MaxHooks == 2

HookStep == 1000

HookHorizon == 7000

\* The phoneNumber values of the leads: a formatted number, the same number
\* as a person writes it, a number that is too short, and none.
LeadPhones == {SenderSeq[1],
               <<"1", "5", "5", "5", "-", "1", "2", "3", "0", "0", "0", "1">>,
               <<"5", "5", "5">>,
               <<>>}

\* Number of media-stream connections of a behaviour, and of the frames
\* that leave a trace (a transcript line, a forwarded frame, an error line).
MaxConns == 2

MaxFrames == 2

\* Session keys (x-twilio-call-sid or session_<Date.now()>), in the order in
\* which a behaviour first uses them; two connections may carry the same key.
SessionIdSeq == <<"CA1", "CA2">>

\* The streamSid values of start frames, and the value before any.
StreamSids == {"MZ1"}

NullSid == "null"

\* The texts frames carry, as sequences of characters: one with blanks
\* around it, and the empty text (no transcript in a response, no payload in
\* an audio frame).
SomeText == <<" ", "o", "k", " ">>

NoText == <<>>

\* A frame that JSON.parse rejects.
Malformed == "<malformed>"

\* The environment variables index.js reads.
ConfigNames == {"OPENAI_API_KEY", "WEBHOOK_URL", "TWILIO_ACCOUNT_SID", "TWILIO_AUTH_TOKEN",
                "TWILIO_PHONE_NUMBER", "PORT"}

Variants == {"relay", "direct"}

(* ------------------------------- state -------------------------------- *)

VARIABLES
    variant,            \* which entry point runs
    now,                \* Date.now()
    nextSweep,          \* when the cleanup timer fires next
    sweeps,             \* runs of the cleanup timer so far
    processedMessages,  \* Map: MessageSid -> timestamp
    rateLimiter,        \* Map: phone -> last message timestamp
    smsConversations,   \* Map: phone -> array of {role, content}   (relay)
    conversations,      \* Supabase table conversations: rows        (direct)
    messages,           \* Supabase table messages: rows             (direct)
    reqs,               \* the /sms requests received and their responses
    handlers,           \* the suspended /sms handlers, by request
    smsErrors,          \* the console.error lines of the /sms handlers
    deliveries,         \* Map: <<request, mode>> -> sends of the reply started
    leadReqs,           \* the /check-leads requests, their responses and frames
    hooks,              \* the calls of sendToWebhook
    sessions,           \* Map: session key -> session object
    sessionObjs,        \* the session objects {transcript, streamSid} ever created
    conns,              \* the media-stream connections and their closures
    boot,               \* the start of the process: environment and progress
    statusReqs,         \* the /message-status requests, their responses and frames
    connectedClients,   \* Map: clientId -> dashboard socket (index-supabase.js)
    observerSockets,    \* the dashboard sockets ever accepted by wsServer
    broadcasts,         \* calls of broadcastMessage so far
    qaReqs,             \* the /api/question-answer requests, their runs and responses
    fmt                 \* a phone number given to the formatting of a lead, and what became of it

\* The state of the /check-leads handlers.
leadVars == <<leadReqs>>

\* The state of the calls of sendToWebhook.
hookVars == <<hooks>>

\* The state of the voice bridge.
voiceVars == <<sessions, sessionObjs, conns>>

\* The state of the start of the process.
bootVars == <<boot>>

\* The state of the /message-status handlers.
statusVars == <<statusReqs>>

\* The state of the dashboard sockets.
observerVars == <<connectedClients, observerSockets, broadcasts>>

\* The state of the /api/question-answer handlers.
qaVars == <<qaReqs>>

\* The state of the formatting of one phone number.
fmtVars == <<fmt>>

vars == <<variant, now, nextSweep, sweeps, processedMessages, rateLimiter,
          smsConversations, conversations, messages, reqs, handlers, smsErrors, deliveries,
          leadVars, hookVars, voiceVars, bootVars, statusVars, observerVars, qaVars, fmtVars>>

(* ---------------------------- Map helpers ----------------------------- *)

MapHas(m, k) == k \in DOMAIN m

MapSet(m, k, v) == [x \in DOMAIN m \cup {k} |-> IF x = k THEN v ELSE m[x]]

MapDelete(m, k) == [x \in DOMAIN m \ {k} |-> m[x]]

EmptyMap == [x \in {} |-> 0]

Rids == 1..Len(reqs)

Range(seq) == {seq[i] : i \in 1..Len(seq)}

\* The values of seq a new request may carry: those used before and the
\* first one not used yet.
InOrder(seq, used) == {seq[i] : i \in {j \in 1..Len(seq) : j = 1 \/ seq[j - 1] \in used}}

Senders == InOrder(SenderSeq, {reqs[r].From : r \in Rids})

Sids == InOrder(SidSeq, {reqs[r].MessageSid : r \in Rids}) \cup {NoSid}

(* ------------------------------ the guard ----------------------------- *)

\* A rate limit kept for all senders together: the time of the last message
\* of any sender.
LastMessageTimeAnySender(From) ==
    IF rateLimiter = EmptyMap THEN 0
    ELSE LET t == {rateLimiter[s] : s \in DOMAIN rateLimiter}
         IN  CHOOSE x \in t : \A y \in t : y <= x

\* const lastMessageTime = rateLimiter.get(From) || 0;
LastMessageTime(From) == IF MapHas(rateLimiter, From) THEN rateLimiter[From] ELSE 0

\* A rate limit that also turns away a message exactly one second later.
RateLimitedInclusive(From) == now - LastMessageTime(From) <= RATE_LIMIT_MS

\* if (Date.now() - lastMessageTime < 1000)
RateLimited(From) == now - LastMessageTime(From) < RATE_LIMIT_MS

\* A duplicate test that looks the id up under the sender's phone number.
IsDuplicateWrongKey(MessageSid) == MessageSid # NoSid /\ MapHas(rateLimiter, <<MessageSid>>)

\* if (MessageSid && processedMessages.has(MessageSid))
IsDuplicate(MessageSid) == MessageSid # NoSid /\ MapHas(processedMessages, MessageSid)

\* The outcome of the guard; the rate limit is tested first.
Decision(From, MessageSid) ==
    IF RateLimited(From) THEN "RATE_LIMITED"
    ELSE IF IsDuplicate(MessageSid) THEN "DUPLICATE"
    ELSE "ACCEPT"

\* rateLimiter.set(From, Date.now()) runs whenever the rate limit let the
\* request through, before the duplicate test.
RateLimiterAfter(From, MessageSid) ==
    IF RateLimited(From) THEN rateLimiter ELSE MapSet(rateLimiter, From, now)

\* A guard that leaves the recording of the id to a later step of the
\* handler.
ProcessedAfterDeferred(From, MessageSid) == processedMessages

\* if (MessageSid) processedMessages.set(MessageSid, Date.now()) runs for an
\* accepted request only.
ProcessedAfter(From, MessageSid) ==
    IF Decision(From, MessageSid) = "ACCEPT" /\ MessageSid # NoSid
    THEN MapSet(processedMessages, MessageSid, now)
    ELSE processedMessages

\* The body of the response of a request the guard turns away.
RejectMessage(decision) ==
    IF decision = "RATE_LIMITED" THEN "Message rate limited"
    ELSE "Duplicate message ignored"

(* --------------------------- cleanup timer ---------------------------- *)

\* A cleanup that also deletes an entry exactly as old as the window.
ExpiredInclusive(timestamp) == timestamp <= now - MESSAGE_DEDUPE_WINDOW_MS

\* A cleanup whose threshold has its operands swapped.
ExpiredSwapped(timestamp) == timestamp < MESSAGE_DEDUPE_WINDOW_MS - now

\* if (timestamp < threshold), threshold = now - MESSAGE_DEDUPE_WINDOW_MS
Expired(timestamp) == timestamp < now - MESSAGE_DEDUPE_WINDOW_MS

\* for (...) if (timestamp < threshold) processedMessages.delete(messageId)
Swept(m) == [k \in {x \in DOMAIN m : ~Expired(m[x])} |-> m[k]]

(* ------------------------- requests and frames ------------------------ *)

\* A request and the response sent for it (status 0: none sent yet).
Request(From, MessageSid, status, message) ==
    [From |-> From, MessageSid |-> MessageSid, at |-> now,
     status |-> status, message |-> message]

\* reply.send(...) / reply.status(500).send(...)
Respond(rid, status, message) ==
    [reqs EXCEPT ![rid].status = status, ![rid].message = message]

\* A suspended handler: where it waits and the conversation row it holds.
Frame(pc) == [pc |-> pc, conv |-> 0]

At(rid, pc) == MapHas(handlers, rid) /\ handlers[rid].pc = pc

Goto(rid, pc) == [handlers EXCEPT ![rid].pc = pc]

SYSTEM_MESSAGE == [role |-> "system", content |-> 0]

\* { role: 'user', content: Body }: the Body of request rid is written rid.
UserEntry(rid) == [role |-> "user", content |-> rid]

\* { role: 'assistant', content: aiResponse }: the reply to request rid.
AssistantEntry(rid) == [role |-> "assistant", content |-> rid]

\* if (!smsConversations.has(From)) smsConversations.set(From, [system]);
\* conversationHistory.push(user)
HistoryWithUser(From, rid) ==
    LET h == IF MapHas(smsConversations, From) THEN smsConversations[From]
             ELSE <<SYSTEM_MESSAGE>>
    IN  MapSet(smsConversations, From, Append(h, UserEntry(rid)))

\* The sends of the reply to request rid started so far in the given mode:
\* "twilio" (the fetch of the Twilio Messages API) or "relay" (the
\* sendToWebhook call that carries aiResponse).
Sent(rid, mode) == IF MapHas(deliveries, <<rid, mode>>) THEN deliveries[<<rid, mode>>] ELSE 0

Deliver(rid, mode) == MapSet(deliveries, <<rid, mode>>, Sent(rid, mode) + 1)

\* console.error(...) of the handler of request rid, at the named place.
LogError(rid, where) == smsErrors \cup {<<rid, where>>}

(* ------------------ /sms of index.js (relay variant) ------------------ *)

RelayUnchanged == <<variant, now, nextSweep, sweeps, processedMessages, rateLimiter,
                    conversations, messages, leadVars, hookVars, voiceVars, bootVars, statusVars, observerVars, qaVars, fmtVars>>

\* Lines 828-887: guard, acknowledgment, history append, and the start of
\* the relay of the inbound message (sendToWebhook runs up to its fetch).
Sms(From, MessageSid) ==
    /\ variant = "relay"
    /\ Len(reqs) < MaxReq
    /\ LET d == Decision(From, MessageSid)
           rid == Len(reqs) + 1
       IN  /\ rateLimiter' = RateLimiterAfter(From, MessageSid)
           /\ processedMessages' = ProcessedAfter(From, MessageSid)
           /\ IF d = "ACCEPT"
              THEN /\ reqs' = Append(reqs, Request(From, MessageSid, 200,
                                                   "SMS received, processing"))
                   /\ smsConversations' = HistoryWithUser(From, rid)
                   /\ handlers' = MapSet(handlers, rid, Frame("relayIn"))
              ELSE /\ reqs' = Append(reqs, Request(From, MessageSid, 200,
                                                   RejectMessage(d)))
                   /\ UNCHANGED <<smsConversations, handlers>>
    /\ UNCHANGED <<variant, now, nextSweep, sweeps, conversations, messages, smsErrors,
                   deliveries, leadVars, hookVars, voiceVars, bootVars, statusVars, observerVars, qaVars, fmtVars>>

\* A catch around the inbound relay that logs and rethrows, as the catch of
\* sendToWebhook does: the failure ends the turn in the outer catch.
SmsRelayInboundDoneRethrows(rid, ok) ==
    /\ variant = "relay"
    /\ At(rid, "relayIn")
    /\ smsErrors' = IF ok THEN smsErrors ELSE LogError(rid, "inbound webhook")
    /\ handlers' = IF ok THEN Goto(rid, "completion") ELSE MapDelete(handlers, rid)
    /\ UNCHANGED <<smsConversations, reqs>>
    /\ UNCHANGED RelayUnchanged
    /\ UNCHANGED deliveries

\* Lines 874-900: the relay of the inbound message ends (its failure is
\* caught and logged); the completion call is started.
SmsRelayInboundDone(rid, ok) ==
    /\ variant = "relay"
    /\ At(rid, "relayIn")
    /\ smsErrors' = IF ok THEN smsErrors ELSE LogError(rid, "inbound webhook")
    /\ handlers' = Goto(rid, "completion")
    /\ UNCHANGED <<smsConversations, reqs>>
    /\ UNCHANGED RelayUnchanged
    /\ UNCHANGED deliveries

\* A handler whose catch answers the failure to the caller, as the catch of
\* the other /sms handlers does.
SmsCompletionDoneAnswersError(rid, outcome) ==
    /\ variant = "relay"
    /\ At(rid, "completion")
    /\ IF outcome = "choice"
       THEN /\ smsConversations' =
                  [smsConversations EXCEPT ![reqs[rid].From] = Append(@, AssistantEntry(rid))]
            /\ handlers' = Goto(rid, "relayOut")
            /\ deliveries' = Deliver(rid, "relay")
            /\ UNCHANGED <<smsErrors, reqs>>
       ELSE /\ handlers' = MapDelete(handlers, rid)
            /\ smsErrors' = LogError(rid, "completion")
            /\ reqs' = Respond(rid, 500, "Internal server error")
            /\ UNCHANGED <<smsConversations, deliveries>>
    /\ UNCHANGED RelayUnchanged

\* Lines 902-935: the completion call ends. With a choice the reply is
\* appended and its relay started; without one, or on a thrown error, the
\* turn ends with a log line.
SmsCompletionDone(rid, outcome) ==
    /\ variant = "relay"
    /\ At(rid, "completion")
    /\ IF outcome = "choice"
       THEN /\ smsConversations' =
                  [smsConversations EXCEPT ![reqs[rid].From] = Append(@, AssistantEntry(rid))]
            /\ handlers' = Goto(rid, "relayOut")
            /\ deliveries' = Deliver(rid, "relay")
            /\ UNCHANGED smsErrors
       ELSE /\ handlers' = MapDelete(handlers, rid)
            /\ smsErrors' = LogError(rid, "completion")
            /\ UNCHANGED <<smsConversations, deliveries>>
    /\ UNCHANGED reqs
    /\ UNCHANGED RelayUnchanged

\* Lines 914-936: the relay of the reply ends; its failure is caught.
SmsRelayOutboundDone(rid, ok) ==
    /\ variant = "relay"
    /\ At(rid, "relayOut")
    /\ smsErrors' = IF ok THEN smsErrors ELSE LogError(rid, "outbound webhook")
    /\ handlers' = MapDelete(handlers, rid)
    /\ UNCHANGED <<smsConversations, reqs>>
    /\ UNCHANGED RelayUnchanged
    /\ UNCHANGED deliveries

(* ------------- /sms of index-supabase.js (direct variant) ------------- *)

DirectUnchanged == <<variant, now, nextSweep, sweeps, processedMessages, rateLimiter,
                     smsConversations, leadVars, hookVars, voiceVars, bootVars, statusVars, observerVars, qaVars, fmtVars>>

\* .from('conversations').select('*').eq('phone_number', phoneNumber)
\* .order('created_at', {ascending: false}).limit(1): the newest row of the
\* phone, 0 when there is none. A row's id is its index.
ExistingConversation(phoneNumber) ==
    LET ids == {i \in 1..Len(conversations) : conversations[i] = phoneNumber}
    IN  IF ids = {} THEN 0 ELSE CHOOSE i \in ids : \A j \in ids : j <= i

\* Lines 479-505 and 144-152: the same guard; an accepted request is not
\* answered yet and starts getOrCreateConversation (its select).
SmsSupabase(userPhone, MessageSid) ==
    /\ variant = "direct"
    /\ Len(reqs) < MaxReq
    /\ LET d == Decision(userPhone, MessageSid)
           rid == Len(reqs) + 1
       IN  /\ rateLimiter' = RateLimiterAfter(userPhone, MessageSid)
           /\ processedMessages' = ProcessedAfter(userPhone, MessageSid)
           /\ IF d = "ACCEPT"
              THEN /\ reqs' = Append(reqs, Request(userPhone, MessageSid, 0, ""))
                   /\ handlers' = MapSet(handlers, rid, Frame("select"))
              ELSE /\ reqs' = Append(reqs, Request(userPhone, MessageSid, 200,
                                                   RejectMessage(d)))
                   /\ UNCHANGED handlers
    /\ UNCHANGED <<variant, now, nextSweep, sweeps, smsConversations, conversations,
                   messages, smsErrors, deliveries, leadVars, hookVars, voiceVars, bootVars, statusVars, observerVars, qaVars, fmtVars>>

\* The message of an error thrown by the store or the completion call
\* (text of the provider), and of the one the handler throws itself:
\* throw new Error(`Failed to send SMS: ...`).
UPSTREAM_ERROR == "upstream error"

SEND_ERROR == "Failed to send SMS"

\* catch (error) { console.error('Error:', error);
\*                 reply.status(500).send({error, message: errorMessage, details}) }
Catch(rid, errorMessage) ==
    /\ reqs' = Respond(rid, 500, errorMessage)
    /\ handlers' = MapDelete(handlers, rid)
    /\ smsErrors' = LogError(rid, "catch")

\* getOrCreateConversation, lines 154-169: the select ends. An error is
\* rethrown to the handler's catch; a found row is returned and storeMessage
\* starts its insert; otherwise the insert of a new row starts.
SbSelectDone(rid, ok) ==
    /\ variant = "direct"
    /\ At(rid, "select")
    /\ IF ~ok THEN Catch(rid, UPSTREAM_ERROR)
       ELSE /\ UNCHANGED smsErrors
            /\ handlers' =
                  IF ExistingConversation(reqs[rid].From) # 0
                  THEN [handlers EXCEPT ![rid] =
                           [pc |-> "storeUser",
                            conv |-> ExistingConversation(reqs[rid].From)]]
                  ELSE Goto(rid, "insert")
            /\ UNCHANGED reqs
    /\ UNCHANGED <<conversations, messages>>
    /\ UNCHANGED DirectUnchanged
    /\ UNCHANGED deliveries

\* getOrCreateConversation, lines 164-176, then storeMessage's insert starts.
SbInsertDone(rid, ok) ==
    /\ variant = "direct"
    /\ At(rid, "insert")
    /\ IF ok
       THEN /\ conversations' = Append(conversations, reqs[rid].From)
            /\ handlers' = [handlers EXCEPT ![rid] =
                               [pc |-> "storeUser", conv |-> Len(conversations) + 1]]
            /\ UNCHANGED <<reqs, smsErrors>>
       ELSE /\ Catch(rid, UPSTREAM_ERROR)
            /\ UNCHANGED conversations
    /\ UNCHANGED messages
    /\ UNCHANGED DirectUnchanged
    /\ UNCHANGED deliveries

\* storeMessage(conversation.id, 'user', userMessage), lines 200-225 and
\* 508-542: the row is stored, the message broadcast and the completion
\* call started; an error goes to the catch.
SbStoreUserDone(rid, ok) ==
    /\ variant = "direct"
    /\ At(rid, "storeUser")
    /\ IF ok
       THEN /\ messages' = Append(messages, [conversation_id |-> handlers[rid].conv,
                                             sender |-> "user", content |-> rid])
            /\ handlers' = Goto(rid, "completion")
            /\ UNCHANGED <<reqs, smsErrors>>
       ELSE /\ Catch(rid, UPSTREAM_ERROR)
            /\ UNCHANGED messages
    /\ UNCHANGED conversations
    /\ UNCHANGED DirectUnchanged
    /\ UNCHANGED deliveries

\* Lines 544-548: data.choices[0].message.content; a payload without the
\* choice throws a TypeError, a failed call throws too: both reach the catch.
\* With a choice storeMessage(conversation.id, 'assistant', ...) starts.
SbCompletionDone(rid, outcome) ==
    /\ variant = "direct"
    /\ At(rid, "completion")
    /\ IF outcome = "choice"
       THEN /\ handlers' = Goto(rid, "storeAssistant")
            /\ UNCHANGED <<reqs, smsErrors>>
       ELSE Catch(rid, UPSTREAM_ERROR)
    /\ UNCHANGED <<conversations, messages>>
    /\ UNCHANGED DirectUnchanged
    /\ UNCHANGED deliveries

\* Lines 548-562: the assistant message is stored, then the Twilio send
\* is started.
SbStoreAssistantDone(rid, ok) ==
    /\ variant = "direct"
    /\ At(rid, "storeAssistant")
    /\ IF ok
       THEN /\ messages' = Append(messages, [conversation_id |-> handlers[rid].conv,
                                             sender |-> "assistant", content |-> rid])
            /\ handlers' = Goto(rid, "twilio")
            /\ deliveries' = Deliver(rid, "twilio")
            /\ UNCHANGED <<reqs, smsErrors>>
       ELSE /\ Catch(rid, UPSTREAM_ERROR)
            /\ UNCHANGED <<messages, deliveries>>
    /\ UNCHANGED conversations
    /\ UNCHANGED DirectUnchanged

\* A handler that sends again when Twilio answers with a non-success status.
SbTwilioDoneRetries(rid, ok) ==
    /\ variant = "direct"
    /\ At(rid, "twilio")
    /\ IF ok
       THEN /\ reqs' = Respond(rid, 200, "")
            /\ handlers' = MapDelete(handlers, rid)
            /\ UNCHANGED <<smsErrors, deliveries>>
       ELSE IF Sent(rid, "twilio") < 2
            THEN /\ deliveries' = Deliver(rid, "twilio")
                 /\ UNCHANGED <<reqs, handlers, smsErrors>>
            ELSE /\ Catch(rid, SEND_ERROR)
                 /\ UNCHANGED deliveries
    /\ UNCHANGED <<conversations, messages>>
    /\ UNCHANGED DirectUnchanged

\* Lines 564-591: if (!twilioResponse.ok) throw; otherwise broadcast and
\* reply.send({ success: true }).
SbTwilioDone(rid, ok) ==
    /\ variant = "direct"
    /\ At(rid, "twilio")
    /\ IF ok
       THEN /\ reqs' = Respond(rid, 200, "")
            /\ handlers' = MapDelete(handlers, rid)
            /\ UNCHANGED smsErrors
       ELSE Catch(rid, SEND_ERROR)
    /\ UNCHANGED <<conversations, messages>>
    /\ UNCHANGED DirectUnchanged
    /\ UNCHANGED deliveries

(* --------------- /sms of index.js, lines 166-329 (legacy) ------------- *)

LegacyUnchanged == <<variant, now, nextSweep, sweeps, processedMessages, rateLimiter,
                     smsConversations, conversations, messages, leadVars, hookVars, voiceVars, bootVars, statusVars, observerVars, qaVars, fmtVars>>

\* Lines 166-285: no guard and no history; the completion call is started.
LegacySms(userPhone) ==
    /\ variant = "legacy"
    /\ Len(reqs) < MaxReq
    /\ reqs' = Append(reqs, Request(userPhone, NoSid, 0, ""))
    /\ handlers' = MapSet(handlers, Len(reqs) + 1, Frame("completion"))
    /\ UNCHANGED <<smsErrors, deliveries>>
    /\ UNCHANGED LegacyUnchanged

\* Lines 287-302: data.choices[0].message.content (a failed call or a
\* payload without the choice throws to the catch), then the Twilio send.
LegacyCompletionDone(rid, outcome) ==
    /\ variant = "legacy"
    /\ At(rid, "completion")
    /\ IF outcome = "choice"
       THEN /\ handlers' = Goto(rid, "twilio")
            /\ deliveries' = Deliver(rid, "twilio")
            /\ UNCHANGED <<reqs, smsErrors>>
       ELSE /\ Catch(rid, UPSTREAM_ERROR)
            /\ UNCHANGED deliveries
    /\ UNCHANGED LegacyUnchanged

\* Lines 304-315: if (!twilioResponse.ok) throw; otherwise sendToWebhook
\* is called with userMessage and aiResponse.
LegacyTwilioDone(rid, ok) ==
    /\ variant = "legacy"
    /\ At(rid, "twilio")
    /\ IF ok
       THEN /\ handlers' = Goto(rid, "webhook")
            /\ deliveries' = Deliver(rid, "relay")
            /\ UNCHANGED <<reqs, smsErrors>>
       ELSE /\ Catch(rid, SEND_ERROR)
            /\ UNCHANGED deliveries
    /\ UNCHANGED LegacyUnchanged

\* Lines 310-328: sendToWebhook ends; its error is not caught on the spot
\* and reaches the catch of the handler.
LegacyWebhookDone(rid, ok) ==
    /\ variant = "legacy"
    /\ At(rid, "webhook")
    /\ IF ok
       THEN /\ reqs' = Respond(rid, 200, "")
            /\ handlers' = MapDelete(handlers, rid)
            /\ UNCHANGED smsErrors
       ELSE Catch(rid, UPSTREAM_ERROR)
    /\ UNCHANGED deliveries
    /\ UNCHANGED LegacyUnchanged

(* ----------------------- /check-leads of index.js --------------------- *)

LeadUnchanged == <<variant, now, nextSweep, sweeps, processedMessages, rateLimiter,
                   conversations, messages, reqs, handlers, smsErrors, deliveries, hookVars, voiceVars, bootVars, statusVars, observerVars, qaVars, fmtVars>>

Digits == {"0", "1", "2", "3", "4", "5", "6", "7", "8", "9"}

\* phoneNumber.replace(/\D/g, '')
RECURSIVE StripNonDigits(_)
StripNonDigits(str) ==
    IF str = <<>> THEN <<>>
    ELSE IF Head(str) \in Digits THEN <<Head(str)>> \o StripNonDigits(Tail(str))
    ELSE StripNonDigits(Tail(str))

\* if (phoneNumber && !phoneNumber.startsWith('+'))
\*     phoneNumber = '+' + phoneNumber.replace(/\D/g, '')
FormatPhoneNumber(phoneNumber) ==
    IF phoneNumber # <<>> /\ Head(phoneNumber) # "+"
    THEN <<"+">> \o StripNonDigits(phoneNumber)
    ELSE phoneNumber

MIN_PHONE_LENGTH == 10

\* A test that skips a lead without a number only.
InvalidPhoneEmptyOnly(phoneNumber) == phoneNumber = <<>>

\* if (!phoneNumber || phoneNumber.length < 10) continue
InvalidPhone(phoneNumber) == phoneNumber = <<>> \/ Len(phoneNumber) < MIN_PHONE_LENGTH

\* test-sms.js, lines 84-86: the same formatting without the test for an
\* empty number.
TestFormatPhoneNumber(phoneNumber) ==
    IF phoneNumber = <<>> \/ Head(phoneNumber) # "+"
    THEN <<"+">> \o StripNonDigits(phoneNumber)
    ELSE phoneNumber

\* The bodies a /check-leads request may carry: none, one without leads,
\* one whose leads is no array, one with a list of leads.
LeadLists == UNION {[1..n -> [phoneNumber : LeadPhones]] : n \in 0..MaxLeads}

LeadBodies == {[kind |-> k, leads |-> <<>>] : k \in {"nobody", "noleads", "notarray"}}
              \cup {[kind |-> "leads", leads |-> l] : l \in LeadLists}

Lids == 1..Len(leadReqs)

\* The index of the first lead from i on that is not skipped (past the end
\* of the list when there is none).
RECURSIVE NextLead(_, _)
NextLead(leads, i) ==
    IF i > Len(leads) THEN i
    ELSE IF InvalidPhone(FormatPhoneNumber(leads[i].phoneNumber)) THEN NextLead(leads, i + 1)
    ELSE i

\* A call issued for lead i of a request: the completion call or the
\* delivery of the outreach, and the number the lead is contacted under.
LeadCall(req, i, call) ==
    [lead |-> i, call |-> call, to |-> FormatPhoneNumber(req.body.leads[i].phoneNumber)]

\* A new request: not answered, no call issued.
LeadRequest(body) ==
    [body |-> body, status |-> 0, message |-> "", envelope |-> {}, pc |-> "start",
     i |-> 1, conv |-> 0, calls |-> <<>>]

\* The for loop from lead i on, up to its next await or to the end of the
\* handler: the completion call of the next valid lead is started, or the
\* request is answered reply.send({ success: true, ... }).
LeadLoop(req, i) ==
    LET n == NextLead(req.body.leads, i)
    IN  IF n > Len(req.body.leads)
        THEN [req EXCEPT !.status = 200, !.message = "Outreach messages sent",
                         !.envelope = {"success", "message"}, !.pc = "done", !.i = n]
        ELSE [req EXCEPT !.pc = "completion", !.i = n,
                         !.calls = Append(@, LeadCall(req, n, "completion"))]

\* catch (error) { reply.status(500).send({error, message, details}) }
LeadCatch(req, errorMessage) ==
    [req EXCEPT !.status = 500, !.message = errorMessage,
                !.envelope = {"error", "message", "details"}, !.pc = "done"]

\* Lines 693-747: the validation of the body and the loop up to the first
\* completion call.
CheckLeads(body) ==
    /\ variant = "relay"
    /\ Len(leadReqs) < MaxLeadReq
    /\ LET req == LeadRequest(body)
       IN  leadReqs' = Append(leadReqs,
               IF body.kind = "nobody" THEN LeadCatch(req, "Request body is missing")
               ELSE IF body.kind \in {"noleads", "notarray"}
                    THEN LeadCatch(req, "Invalid leads data format")
               ELSE LeadLoop(req, 1))
    /\ UNCHANGED smsConversations
    /\ UNCHANGED LeadUnchanged

\* The name under which the lead at hand is stored.
LeadPhone(k) == FormatPhoneNumber(leadReqs[k].body.leads[leadReqs[k].i].phoneNumber)

\* { role: 'assistant', content: aiResponse }: the outreach to lead i of
\* request k.
OutreachEntry(k, i) == [role |-> "assistant", content |-> <<k, i>>]

\* A handler that goes on with the next lead when a completion call fails.
LeadCompletionDoneContinues(k, outcome) ==
    /\ variant = "relay"
    /\ k \in Lids
    /\ leadReqs[k].pc = "completion"
    /\ IF outcome = "choice"
       THEN /\ smsConversations' =
                  LET h == IF MapHas(smsConversations, LeadPhone(k))
                           THEN smsConversations[LeadPhone(k)] ELSE <<>>
                  IN  MapSet(smsConversations, LeadPhone(k),
                             h \o <<SYSTEM_MESSAGE, OutreachEntry(k, leadReqs[k].i)>>)
            /\ leadReqs' = [leadReqs EXCEPT
                               ![k].pc = "relay",
                               ![k].calls = Append(@, LeadCall(leadReqs[k], leadReqs[k].i,
                                                               "delivery"))]
       ELSE /\ leadReqs' = [leadReqs EXCEPT ![k] = LeadLoop(@, @.i + 1)]
            /\ UNCHANGED smsConversations
    /\ UNCHANGED LeadUnchanged

\* Lines 749-779: the completion call of a lead ends. A failed call, or a
\* payload without choices[0], throws to the catch. Otherwise the history of
\* the number is created if absent, the system entry and the outreach are
\* pushed, and the relay post is started.
LeadCompletionDone(k, outcome) ==
    /\ variant = "relay"
    /\ k \in Lids
    /\ leadReqs[k].pc = "completion"
    /\ IF outcome = "choice"
       THEN /\ smsConversations' =
                  LET h == IF MapHas(smsConversations, LeadPhone(k))
                           THEN smsConversations[LeadPhone(k)] ELSE <<>>
                  IN  MapSet(smsConversations, LeadPhone(k),
                             h \o <<SYSTEM_MESSAGE, OutreachEntry(k, leadReqs[k].i)>>)
            /\ leadReqs' = [leadReqs EXCEPT
                               ![k].pc = "relay",
                               ![k].calls = Append(@, LeadCall(leadReqs[k], leadReqs[k].i,
                                                               "delivery"))]
       ELSE /\ leadReqs' = [leadReqs EXCEPT ![k] = LeadCatch(@, "completion failed")]
            /\ UNCHANGED smsConversations
    /\ UNCHANGED LeadUnchanged

\* Lines 771-786: the relay post of a lead ends (its failure is caught
\* and logged) and the loop goes on with the next lead.
LeadRelayDone(k, ok) ==
    /\ variant = "relay"
    /\ k \in Lids
    /\ leadReqs[k].pc = "relay"
    /\ leadReqs' = [leadReqs EXCEPT ![k] = LeadLoop(@, @.i + 1)]
    /\ UNCHANGED smsConversations
    /\ UNCHANGED LeadUnchanged

(* ------------------- /check-leads of index-supabase.js ---------------- *)

DirectLeadUnchanged == <<variant, now, nextSweep, sweeps, processedMessages, rateLimiter,
                         smsConversations, reqs, handlers, smsErrors, deliveries, hookVars,
                         voiceVars, bootVars, statusVars, observerVars, qaVars, fmtVars>>

\* The for loop from lead i on, up to its next await or to the end of the
\* handler: getOrCreateConversation of the next valid lead starts its
\* select, or the request is answered reply.send({ success: true, ... }).
SbLeadLoop(req, i) ==
    LET n == NextLead(req.body.leads, i)
    IN  IF n > Len(req.body.leads)
        THEN [req EXCEPT !.status = 200, !.message = "Outreach messages sent",
                         !.envelope = {"success", "message", "results"},
                         !.pc = "done", !.i = n]
        ELSE [req EXCEPT !.pc = "select", !.i = n, !.conv = 0]

\* Lines 344-373: the validation of the body and the loop up to the first
\* getOrCreateConversation.
CheckLeadsSupabase(body) ==
    /\ variant = "direct"
    /\ Len(leadReqs) < MaxLeadReq
    /\ LET req == LeadRequest(body)
       IN  leadReqs' = Append(leadReqs,
               IF body.kind = "nobody" THEN LeadCatch(req, "Request body is missing")
               ELSE IF body.kind \in {"noleads", "notarray"}
                    THEN LeadCatch(req, "Invalid leads data format")
               ELSE SbLeadLoop(req, 1))
    /\ UNCHANGED <<conversations, messages>>
    /\ UNCHANGED DirectLeadUnchanged

\* The conversation row of the lead is at hand: the completion call of
\* lines 376-395 is started.
SbLeadCompletion(req, conv) ==
    [req EXCEPT !.pc = "completion", !.conv = conv,
                !.calls = Append(@, LeadCall(req, req.i, "completion"))]

\* getOrCreateConversation, lines 154-169, called at 373: the select ends.
\* An error is rethrown to the handler's catch; a found row is returned;
\* otherwise the insert of a new row starts.
SbLeadSelectDone(k, ok) ==
    /\ variant = "direct"
    /\ k \in Lids
    /\ leadReqs[k].pc = "select"
    /\ leadReqs' = [leadReqs EXCEPT ![k] =
           IF ~ok THEN LeadCatch(@, UPSTREAM_ERROR)
           ELSE IF ExistingConversation(LeadPhone(k)) # 0
                THEN SbLeadCompletion(@, ExistingConversation(LeadPhone(k)))
                ELSE [@ EXCEPT !.pc = "insert"]]
    /\ UNCHANGED <<conversations, messages>>
    /\ UNCHANGED DirectLeadUnchanged

\* getOrCreateConversation, lines 164-176: the insert ends.
SbLeadInsertDone(k, ok) ==
    /\ variant = "direct"
    /\ k \in Lids
    /\ leadReqs[k].pc = "insert"
    /\ IF ok
       THEN /\ conversations' = Append(conversations, LeadPhone(k))
            /\ leadReqs' = [leadReqs EXCEPT ![k] =
                               SbLeadCompletion(@, Len(conversations) + 1)]
       ELSE /\ leadReqs' = [leadReqs EXCEPT ![k] = LeadCatch(@, UPSTREAM_ERROR)]
            /\ UNCHANGED conversations
    /\ UNCHANGED messages
    /\ UNCHANGED DirectLeadUnchanged

\* Lines 397-401: data.choices[0].message.content; a failed call or a
\* payload without the choice throws to the catch. With a choice
\* storeMessage(conversation.id, 'assistant', aiResponse) starts.
SbLeadCompletionDone(k, outcome) ==
    /\ variant = "direct"
    /\ k \in Lids
    /\ leadReqs[k].pc = "completion"
    /\ leadReqs' = [leadReqs EXCEPT ![k] =
           IF outcome = "choice" THEN [@ EXCEPT !.pc = "store"]
           ELSE LeadCatch(@, UPSTREAM_ERROR)]
    /\ UNCHANGED <<conversations, messages>>
    /\ UNCHANGED DirectLeadUnchanged

\* Lines 401-415: the outreach is stored, then the Twilio send is started.
SbLeadStoreDone(k, ok) ==
    /\ variant = "direct"
    /\ k \in Lids
    /\ leadReqs[k].pc = "store"
    /\ IF ok
       THEN /\ messages' = Append(messages, [conversation_id |-> leadReqs[k].conv,
                                             sender |-> "assistant",
                                             content |-> <<k, leadReqs[k].i>>])
            /\ leadReqs' = [leadReqs EXCEPT
                               ![k].pc = "twilio",
                               ![k].calls = Append(@, LeadCall(leadReqs[k], leadReqs[k].i,
                                                               "delivery"))]
       ELSE /\ leadReqs' = [leadReqs EXCEPT ![k] = LeadCatch(@, UPSTREAM_ERROR)]
            /\ UNCHANGED messages
    /\ UNCHANGED conversations
    /\ UNCHANGED DirectLeadUnchanged

\* Lines 417-438: if (!twilioResponse.ok) throw; otherwise the message is
\* broadcast, the result pushed and the loop goes on with the next lead.
SbLeadTwilioDone(k, ok) ==
    /\ variant = "direct"
    /\ k \in Lids
    /\ leadReqs[k].pc = "twilio"
    /\ leadReqs' = [leadReqs EXCEPT ![k] =
           IF ok THEN SbLeadLoop(@, @.i + 1) ELSE LeadCatch(@, SEND_ERROR)]
    /\ UNCHANGED <<conversations, messages>>
    /\ UNCHANGED DirectLeadUnchanged

(* ---------------------- sendToWebhook of index.js --------------------- *)

HookUnchanged == <<variant, nextSweep, sweeps, processedMessages, rateLimiter,
                   smsConversations, conversations, messages, reqs, handlers, smsErrors,
                   deliveries, leadVars, voiceVars, bootVars, statusVars, observerVars, qaVars, fmtVars>>

Hids == 1..Len(hooks)

HookAt(h, pc) == h \in Hids /\ hooks[h].pc = pc

\* The call h has returned or thrown: its caller is resumed.
HookEnd(h, result) == [hooks EXCEPT ![h].pc = "done", ![h].result = result, ![h].ended = now]

\* Lines 1162-1185: the abort timer is set and the fetch started.
SendToWebhook ==
    /\ Len(hooks) < MaxHooks
    /\ hooks' = Append(hooks, [pc |-> "fetch", started |-> now, timer |-> TRUE,
                               ok |-> FALSE, result |-> "", ended |-> 0])
    /\ UNCHANGED now
    /\ UNCHANGED HookUnchanged

\* Lines 1174-1189: the endpoint has sent the status line and headers: fetch
\* resolves, clearTimeout(timeoutId) runs and response.text() starts to
\* read the body.
HookHeaders(h, ok) ==
    /\ HookAt(h, "fetch")
    /\ hooks' = [hooks EXCEPT ![h].pc = "text", ![h].timer = FALSE, ![h].ok = ok]
    /\ UNCHANGED now
    /\ UNCHANGED HookUnchanged

\* Lines 1174 and 1197-1204: the fetch rejects (connection refused, reset);
\* the error is logged and rethrown. The timer is not cleared.
HookFetchError(h) ==
    /\ HookAt(h, "fetch")
    /\ hooks' = HookEnd(h, "error")
    /\ UNCHANGED now
    /\ UNCHANGED HookUnchanged

\* Line 1172: the timer fires and controller.abort() runs; a fetch that is
\* still pending rejects with an AbortError, which is logged and rethrown.
HookTimeout(h) ==
    /\ h \in Hids
    /\ hooks[h].timer
    /\ now >= hooks[h].started + WEBHOOK_TIMEOUT_MS
    /\ hooks' = IF hooks[h].pc = "fetch"
                THEN [HookEnd(h, "AbortError") EXCEPT ![h].timer = FALSE]
                ELSE [hooks EXCEPT ![h].timer = FALSE]
    /\ UNCHANGED now
    /\ UNCHANGED HookUnchanged

\* Lines 1189-1196: the body has been read; a non-success status throws,
\* a success status returns true.
HookBody(h) ==
    /\ HookAt(h, "text")
    /\ hooks' = HookEnd(h, IF hooks[h].ok THEN "true" ELSE "error")
    /\ UNCHANGED now
    /\ UNCHANGED HookUnchanged

\* Lines 1189 and 1197-1204: the connection breaks while the body is read.
HookBodyError(h) ==
    /\ HookAt(h, "text")
    /\ hooks' = HookEnd(h, "error")
    /\ UNCHANGED now
    /\ UNCHANGED HookUnchanged

\* The clock advances; a timer that is due fires before it advances further.
HookTick ==
    /\ now + HookStep <= StartTime + HookHorizon
    /\ \A h \in Hids : hooks[h].timer => now < hooks[h].started + WEBHOOK_TIMEOUT_MS
    /\ now' = now + HookStep
    /\ UNCHANGED hooks
    /\ UNCHANGED HookUnchanged

(* ------------------ /media-stream of index.js (voice) ----------------- *)

VoiceUnchanged == <<variant, now, nextSweep, sweeps, processedMessages, rateLimiter,
                    smsConversations, conversations, messages, reqs, handlers, smsErrors,
                    deliveries, leadVars, hookVars, bootVars, statusVars, observerVars, qaVars, fmtVars>>

Cids == 1..Len(conns)

Oids == 1..Len(sessionObjs)

\* The frames of the realtime provider and of the telephony provider.
ProviderFrames ==
    {[type |-> TRANSCRIPTION_COMPLETED, text |-> SomeText],
     [type |-> "session.updated", text |-> NoText],
     [type |-> Malformed, text |-> NoText]}
    \cup [type : {RESPONSE_DONE, AUDIO_DELTA}, text : {SomeText, NoText}]

TwilioFrames == [event : {"start", "media", "stop", Malformed}, streamSid : StreamSids]

\* String.prototype.trim() on a sequence of characters.
RECURSIVE TrimStart(_)
TrimStart(str) ==
    IF str # <<>> /\ Head(str) = " " THEN TrimStart(Tail(str)) ELSE str

RECURSIVE TrimEnd(_)
TrimEnd(str) ==
    IF str # <<>> /\ str[Len(str)] = " " THEN TrimEnd(SubSeq(str, 1, Len(str) - 1)) ELSE str

Trim(str) == TrimEnd(TrimStart(str))

\* `User: ${userMessage}\n` and `Agent: ${agentMessage}\n`
TranscriptLine(tag, text) == [tag |-> tag, text |-> text]

\* The line the message handler appends for a frame.
LineOf(frame) ==
    IF frame.type = TRANSCRIPTION_COMPLETED
    THEN TranscriptLine("User", Trim(frame.text))
    ELSE TranscriptLine("Agent", IF frame.text # NoText THEN frame.text ELSE AGENT_NOT_FOUND)

RECURSIVE SeqSum(_)
SeqSum(seq) == IF seq = <<>> THEN 0 ELSE Head(seq) + SeqSum(Tail(seq))

\* The frames handled so far that left a trace.
Traces ==
    SeqSum([o \in Oids |-> Len(sessionObjs[o].transcript)])
    + SeqSum([c \in Cids |-> Len(conns[c].toAi) + Len(conns[c].toTwilio)
                                + Len(conns[c].dropped)])

\* Lines 955-967: a telephony socket connects. The session object under its
\* key is reused if there is one, otherwise created; the companion socket to
\* the realtime provider is opened.
MediaStream(sessionId) ==
    /\ Len(conns) < MaxConns
    /\ IF MapHas(sessions, sessionId)
       THEN /\ conns' = Append(conns,
                   [sessionId |-> sessionId, session |-> sessions[sessionId],
                    open |-> TRUE, ai |-> "CONNECTING", timer |-> FALSE, pc |-> "open",
                    toAi |-> <<>>, toTwilio |-> <<>>, dropped |-> <<>>])
            /\ UNCHANGED <<sessions, sessionObjs>>
       ELSE /\ sessionObjs' = Append(sessionObjs,
                   [transcript |-> <<>>, streamSid |-> NullSid, arrived |-> <<>>,
                    extractions |-> 0])
            /\ sessions' = MapSet(sessions, sessionId, Len(sessionObjs) + 1)
            /\ conns' = Append(conns,
                   [sessionId |-> sessionId, session |-> Len(sessionObjs) + 1,
                    open |-> TRUE, ai |-> "CONNECTING", timer |-> FALSE, pc |-> "open",
                    toAi |-> <<>>, toTwilio |-> <<>>, dropped |-> <<>>])
    /\ UNCHANGED VoiceUnchanged

\* Lines 991-994: the companion socket is open; the timer of the session
\* update is set.
AiOpen(c) ==
    /\ c \in Cids
    /\ conns[c].ai = "CONNECTING"
    /\ conns' = [conns EXCEPT ![c].ai = "OPEN", ![c].timer = TRUE]
    /\ UNCHANGED <<sessions, sessionObjs>>
    /\ UNCHANGED VoiceUnchanged

\* Lines 969-988: the timer fires; send() on a socket that is no longer open
\* sends nothing.
SendSessionUpdate(c) ==
    /\ c \in Cids
    /\ conns[c].timer
    /\ conns' = [conns EXCEPT ![c].timer = FALSE,
                              ![c].toAi = IF conns[c].ai = "OPEN"
                                          THEN Append(@, "session.update") ELSE @]
    /\ UNCHANGED <<sessions, sessionObjs>>
    /\ UNCHANGED VoiceUnchanged

\* Lines 1079-1085: the companion socket fails or closes; both handlers
\* only log.
AiClosed(c) ==
    /\ c \in Cids
    /\ conns[c].ai # "CLOSED"
    /\ conns' = [conns EXCEPT ![c].ai = "CLOSED"]
    /\ UNCHANGED <<sessions, sessionObjs>>
    /\ UNCHANGED VoiceUnchanged

\* The handler of lines 997-1034 with a transcript line that is put in front.
OpenAiMessagePrepends(c, frame) ==
    /\ c \in Cids
    /\ conns[c].ai \in {"OPEN", "CLOSING"}
    /\ Traces < MaxFrames
    /\ IF frame.type = Malformed
       THEN /\ conns' = [conns EXCEPT ![c].dropped = Append(@, "openai")]
            /\ UNCHANGED sessionObjs
       ELSE IF frame.type \in {TRANSCRIPTION_COMPLETED, RESPONSE_DONE}
       THEN /\ sessionObjs' = [sessionObjs EXCEPT
                   ![conns[c].session].transcript = <<LineOf(frame)>> \o @,
                   ![conns[c].session].arrived = Append(@, frame)]
            /\ UNCHANGED conns
       ELSE IF frame.type = AUDIO_DELTA /\ frame.text # NoText /\ conns[c].open
       THEN /\ conns' = [conns EXCEPT
                   ![c].toTwilio = Append(@, sessionObjs[conns[c].session].streamSid)]
            /\ UNCHANGED sessionObjs
       ELSE UNCHANGED <<sessionObjs, conns>>
    /\ UNCHANGED sessions
    /\ UNCHANGED VoiceUnchanged

\* Lines 997-1034: a frame of the realtime provider arrives. A frame that
\* does not parse is logged in the catch. A transcription or response frame
\* appends its line to the transcript of the session; an audio frame with a
\* payload is sent to the telephony socket (a closed socket sends nothing).
OpenAiMessage(c, frame) ==
    /\ c \in Cids
    /\ conns[c].ai \in {"OPEN", "CLOSING"}
    /\ Traces < MaxFrames
    /\ IF frame.type = Malformed
       THEN /\ conns' = [conns EXCEPT ![c].dropped = Append(@, "openai")]
            /\ UNCHANGED sessionObjs
       ELSE IF frame.type \in {TRANSCRIPTION_COMPLETED, RESPONSE_DONE}
       THEN /\ sessionObjs' = [sessionObjs EXCEPT
                   ![conns[c].session].transcript = Append(@, LineOf(frame)),
                   ![conns[c].session].arrived = Append(@, frame)]
            /\ UNCHANGED conns
       ELSE IF frame.type = AUDIO_DELTA /\ frame.text # NoText /\ conns[c].open
       THEN /\ conns' = [conns EXCEPT
                   ![c].toTwilio = Append(@, sessionObjs[conns[c].session].streamSid)]
            /\ UNCHANGED sessionObjs
       ELSE UNCHANGED <<sessionObjs, conns>>
    /\ UNCHANGED sessions
    /\ UNCHANGED VoiceUnchanged

\* The handler of lines 1037-1063 reading the fields of a frame that did
\* not parse: the stream id is overwritten by the missing value.
TwilioMessageLenient(c, frame) ==
    /\ c \in Cids
    /\ conns[c].open
    /\ Traces < MaxFrames
    /\ IF frame.event = Malformed
       THEN /\ conns' = [conns EXCEPT ![c].dropped = Append(@, "twilio")]
            /\ sessionObjs' = [sessionObjs EXCEPT ![conns[c].session].streamSid = NullSid]
       ELSE IF frame.event = "media" /\ conns[c].ai = "OPEN"
       THEN /\ conns' = [conns EXCEPT ![c].toAi = Append(@, "input_audio_buffer.append")]
            /\ UNCHANGED sessionObjs
       ELSE IF frame.event = "start"
       THEN /\ sessionObjs' = [sessionObjs EXCEPT
                   ![conns[c].session].streamSid = frame.streamSid]
            /\ UNCHANGED conns
       ELSE UNCHANGED <<sessionObjs, conns>>
    /\ UNCHANGED sessions
    /\ UNCHANGED VoiceUnchanged

\* Lines 1037-1063: a frame of the telephony provider arrives. A frame that
\* does not parse is logged in the catch. A media frame is forwarded if the
\* companion socket is open; a start frame sets the stream id of the session.
TwilioMessage(c, frame) ==
    /\ c \in Cids
    /\ conns[c].open
    /\ Traces < MaxFrames
    /\ IF frame.event = Malformed
       THEN /\ conns' = [conns EXCEPT ![c].dropped = Append(@, "twilio")]
            /\ UNCHANGED sessionObjs
       ELSE IF frame.event = "media" /\ conns[c].ai = "OPEN"
       THEN /\ conns' = [conns EXCEPT ![c].toAi = Append(@, "input_audio_buffer.append")]
            /\ UNCHANGED sessionObjs
       ELSE IF frame.event = "start"
       THEN /\ sessionObjs' = [sessionObjs EXCEPT
                   ![conns[c].session].streamSid = frame.streamSid]
            /\ UNCHANGED conns
       ELSE UNCHANGED <<sessionObjs, conns>>
    /\ UNCHANGED sessions
    /\ UNCHANGED VoiceUnchanged

\* Lines 1066-1072 and 1208-1212: the telephony socket closes. An open
\* companion socket is closed; processTranscriptAndSend is called with the
\* transcript of the session and starts the completion call.
TelephonyClose(c) ==
    /\ c \in Cids
    /\ conns[c].open
    /\ conns' = [conns EXCEPT
           ![c].open = FALSE,
           ![c].ai = IF @ = "OPEN" THEN "CLOSING" ELSE @,
           ![c].pc = "completion"]
    /\ sessionObjs' = [sessionObjs EXCEPT ![conns[c].session].extractions = @ + 1]
    /\ UNCHANGED sessions
    /\ UNCHANGED VoiceUnchanged

\* What the completion call of the extraction yields: a failed call (the
\* { error } object), a payload without choices[0].message.content, content
\* that is no JSON, content that parses to a falsy value, a parsed object.
ExtractOutcomes == {"error", "nochoice", "unparseable", "falsy", "parsed"}

\* The handler of lines 1066-1076 without the catches of lines 1152 and
\* 1237-1246: what is not a parsed object ends the handler before
\* sessions.delete.
ExtractCompletionDoneThrows(c, outcome) ==
    /\ c \in Cids
    /\ conns[c].pc = "completion"
    /\ IF outcome = "parsed"
       THEN /\ conns' = [conns EXCEPT ![c].pc = "webhook"]
            /\ UNCHANGED sessions
       ELSE /\ conns' = [conns EXCEPT ![c].pc = "thrown"]
            /\ UNCHANGED sessions
    /\ UNCHANGED sessionObjs
    /\ UNCHANGED VoiceUnchanged

\* Lines 1212-1242 and 1075: the completion call of the extraction ends. A
\* parsed object starts the relay post; every other outcome is logged,
\* processTranscriptAndSend returns and sessions.delete(sessionId) runs.
ExtractCompletionDone(c, outcome) ==
    /\ c \in Cids
    /\ conns[c].pc = "completion"
    /\ IF outcome = "parsed"
       THEN /\ conns' = [conns EXCEPT ![c].pc = "webhook"]
            /\ UNCHANGED sessions
       ELSE /\ conns' = [conns EXCEPT ![c].pc = "done"]
            /\ sessions' = MapDelete(sessions, conns[c].sessionId)
    /\ UNCHANGED sessionObjs
    /\ UNCHANGED VoiceUnchanged

\* Lines 1223-1233 and 1075: the relay post of the extraction ends; its
\* failure is caught and logged, and sessions.delete(sessionId) runs.
ExtractWebhookDone(c, ok) ==
    /\ c \in Cids
    /\ conns[c].pc = "webhook"
    /\ conns' = [conns EXCEPT ![c].pc = "done"]
    /\ sessions' = MapDelete(sessions, conns[c].sessionId)
    /\ UNCHANGED sessionObjs
    /\ UNCHANGED VoiceUnchanged

(* ----------------------- the start of index.js ------------------------ *)

BootUnchanged == <<variant, now, nextSweep, sweeps, processedMessages, rateLimiter,
                   smsConversations, conversations, messages, reqs, handlers, smsErrors,
                   deliveries, leadVars, hookVars, voiceVars, statusVars, observerVars, qaVars, fmtVars>>

\* process.env.WEBHOOK_URL || "https://hook.us1.make.com/...": the value of
\* the environment, or the address written in the code.
WebhookUrl(env) == IF "WEBHOOK_URL" \in env THEN "env" ELSE "default"

\* Lines 613-666: the module is evaluated. Without OPENAI_API_KEY the
\* process exits; WEBHOOK_URL gets its value and the process exits if that
\* value is empty.
LoadConfig ==
    /\ boot.state = "starting"
    /\ boot' = IF "OPENAI_API_KEY" \notin boot.env
               THEN [boot EXCEPT !.state = "exited"]
               ELSE IF WebhookUrl(boot.env) = "none"
               THEN [boot EXCEPT !.state = "exited"]
               ELSE [boot EXCEPT !.state = "configured", !.webhookUrl = WebhookUrl(boot.env)]
    /\ UNCHANGED BootUnchanged

\* Lines 1103-1112: the callback of fastify.listen; an error ends the
\* process, otherwise requests are served.
Listen(ok) ==
    /\ boot.state = "configured"
    /\ boot' = [boot EXCEPT !.state = IF ok THEN "listening" ELSE "exited"]
    /\ UNCHANGED BootUnchanged

(* --------------------- /message-status of index.js ------------------- *)

StatusUnchanged == <<variant, now, nextSweep, sweeps, processedMessages, rateLimiter,
                     smsConversations, conversations, messages, reqs, handlers, smsErrors,
                     deliveries, leadVars, hookVars, voiceVars, bootVars, observerVars, qaVars, fmtVars>>

Stids == 1..Len(statusReqs)

\* What a call of sendToWebhook ends with: true, an error thrown for a
\* failed post, or the AbortError of its timer.
RelayResults == {"true", "error", "AbortError"}

\* A handler that awaits the relay post before it answers.
MessageStatusAcksLater(hasBody) ==
    /\ variant = "relay"
    /\ Len(statusReqs) < MaxStatusReq
    /\ statusReqs' = Append(statusReqs,
           IF hasBody
           THEN [status |-> 0, message |-> "", pc |-> "relay", relay |-> "pending"]
           ELSE [status |-> 500, message |-> "TypeError", pc |-> "done", relay |-> "none"])
    /\ UNCHANGED StatusUnchanged

\* Lines 801-820: the body is destructured (without a body this throws and
\* the server answers the error), reply.send({ success: true, ... }) runs,
\* and sendToWebhook runs up to its fetch.
MessageStatus(hasBody) ==
    /\ variant = "relay"
    /\ Len(statusReqs) < MaxStatusReq
    /\ statusReqs' = Append(statusReqs,
           IF hasBody
           THEN [status |-> 200, message |-> "Status received", pc |-> "relay",
                 relay |-> "pending"]
           ELSE [status |-> 500, message |-> "TypeError", pc |-> "done", relay |-> "none"])
    /\ UNCHANGED StatusUnchanged

\* Lines 810-825: the relay post ends; an error it throws is caught and
\* logged, and the handler returns.
MessageStatusRelayDone(k, result) ==
    /\ variant = "relay"
    /\ k \in Stids
    /\ statusReqs[k].pc = "relay"
    /\ statusReqs' = [statusReqs EXCEPT ![k].pc = "done", ![k].relay = result]
    /\ UNCHANGED StatusUnchanged

(* ---------------- dashboard sockets of index-supabase.js --------------- *)

ObserverUnchanged == <<variant, now, nextSweep, sweeps, processedMessages, rateLimiter,
                       smsConversations, conversations, messages, reqs, handlers, smsErrors,
                       deliveries, leadVars, hookVars, voiceVars, bootVars, statusVars, qaVars, fmtVars>>

Sockets == 1..Len(observerSockets)

\* Lines 250-272: wsServer.on('connection'). With a clientId the socket is
\* put in the map under it and its listeners are registered; without one it
\* is closed.
ObserverConnect(clientId) ==
    /\ variant = "direct"
    /\ Len(observerSockets) < MaxObservers
    /\ observerSockets' = Append(observerSockets,
           [clientId |-> clientId, open |-> clientId # NoClientId,
            since |-> broadcasts, got |-> 0])
    /\ connectedClients' =
           IF clientId # NoClientId
           THEN MapSet(connectedClients, clientId, Len(observerSockets) + 1)
           ELSE connectedClients
    /\ UNCHANGED broadcasts
    /\ UNCHANGED ObserverUnchanged

\* Lines 265-268: socket.on('close'): connectedClients.delete(clientId).
ObserverClose(s) ==
    /\ variant = "direct"
    /\ s \in Sockets
    /\ observerSockets[s].open
    /\ observerSockets' = [observerSockets EXCEPT ![s].open = FALSE]
    /\ connectedClients' = MapDelete(connectedClients, observerSockets[s].clientId)
    /\ UNCHANGED broadcasts
    /\ UNCHANGED ObserverUnchanged

\* Lines 275-282: broadcastMessage sends to every socket of the map that is
\* open.
BroadcastMessage ==
    /\ variant = "direct"
    /\ broadcasts < MaxBroadcasts
    /\ broadcasts' = broadcasts + 1
    /\ observerSockets' =
           [s \in Sockets |->
               IF /\ \E id \in DOMAIN connectedClients : connectedClients[id] = s
                  /\ observerSockets[s].open
               THEN [observerSockets[s] EXCEPT !.got = @ + 1]
               ELSE observerSockets[s]]
    /\ UNCHANGED connectedClients
    /\ UNCHANGED ObserverUnchanged

(* ------------- /api/question-answer of the assistant server ---------- *)

QaUnchanged == <<variant, now, nextSweep, sweeps, processedMessages, rateLimiter,
                 smsConversations, conversations, messages, reqs, handlers, smsErrors,
                 deliveries, leadVars, hookVars, voiceVars, bootVars, statusVars, observerVars, fmtVars>>

Qids == 1..Len(qaReqs)

\* The statuses the loop of lines 199-207 names, and two of the statuses it
\* does not name: every status outside the four takes the same branch.
SettledOk == "completed"

SettledBad == {"failed", "cancelled", "expired"}

RunStatuses == {SettledOk} \cup SettledBad \cup {"in_progress", "incomplete"}

\* Lines 216-219: the catch block answers 500.
QaFail(req) == [req EXCEPT !.pc = "done", !.status = 500, !.body = "error"]

\* Lines 173-183: the handler starts; with a thread id in data2 no thread is
\* created.
QuestionAnswer(hasThread) ==
    /\ Len(qaReqs) < MaxQaReq
    /\ qaReqs' = Append(qaReqs,
           [pc |-> IF hasThread THEN "message" ELSE "thread",
            runStatus |-> "none", status |-> 0, body |-> ""])
    /\ UNCHANGED QaUnchanged

\* Line 180: threads.create resolves or rejects.
QaThreadDone(k, ok) ==
    /\ k \in Qids
    /\ qaReqs[k].pc = "thread"
    /\ qaReqs' = [qaReqs EXCEPT ![k] = IF ok THEN [@ EXCEPT !.pc = "message"] ELSE QaFail(@)]
    /\ UNCHANGED QaUnchanged

\* Lines 185-188: messages.create resolves or rejects.
QaMessageDone(k, ok) ==
    /\ k \in Qids
    /\ qaReqs[k].pc = "message"
    /\ qaReqs' = [qaReqs EXCEPT ![k] = IF ok THEN [@ EXCEPT !.pc = "run"] ELSE QaFail(@)]
    /\ UNCHANGED QaUnchanged

\* Lines 191-193: runs.create resolves or rejects.
QaRunDone(k, ok) ==
    /\ k \in Qids
    /\ qaReqs[k].pc = "run"
    /\ qaReqs' = [qaReqs EXCEPT ![k] = IF ok THEN [@ EXCEPT !.pc = "retrieve"] ELSE QaFail(@)]
    /\ UNCHANGED QaUnchanged

\* The step of the loop after a status was retrieved (lines 199-205):
\* completed leaves the loop, failed, cancelled and expired throw, any other
\* status starts the timer of one second.
QaAfterRetrieve(req, st) ==
    IF st = SettledOk THEN [req EXCEPT !.pc = "list", !.runStatus = st]
    ELSE IF st \in SettledBad THEN QaFail([req EXCEPT !.runStatus = st])
    ELSE [req EXCEPT !.pc = "sleep", !.runStatus = st]

\* Lines 196 and 206: runs.retrieve resolves with a status.
QaRetrieveDone(k, st) ==
    /\ k \in Qids
    /\ qaReqs[k].pc = "retrieve"
    /\ qaReqs' = [qaReqs EXCEPT ![k] = QaAfterRetrieve(@, st)]
    /\ UNCHANGED QaUnchanged

\* Lines 196 and 206: runs.retrieve rejects.
QaRetrieveFailed(k) ==
    /\ k \in Qids
    /\ qaReqs[k].pc = "retrieve"
    /\ qaReqs' = [qaReqs EXCEPT ![k] = QaFail(@)]
    /\ UNCHANGED QaUnchanged

\* Lines 205-206: the timer of one second fires and the status is asked
\* for again.
QaTimer(k) ==
    /\ k \in Qids
    /\ qaReqs[k].pc = "sleep"
    /\ qaReqs' = [qaReqs EXCEPT ![k].pc = "retrieve"]
    /\ UNCHANGED QaUnchanged

\* Lines 210-216: messages.list resolves with an assistant message, which is
\* sent; without one latestMessage is undefined and the catch block answers;
\* so it does when the call rejects.
QaListDone(k, found) ==
    /\ k \in Qids
    /\ qaReqs[k].pc = "list"
    /\ qaReqs' = [qaReqs EXCEPT ![k] =
           IF found THEN [@ EXCEPT !.pc = "done", !.status = 200, !.body = "message"]
           ELSE QaFail(@)]
    /\ UNCHANGED QaUnchanged

(* ------------------- the formatting of a phone number ----------------- *)

FormatUnchanged == <<variant, now, nextSweep, sweeps, processedMessages, rateLimiter,
                     smsConversations, conversations, messages, reqs, handlers, smsErrors,
                     deliveries, leadVars, hookVars, voiceVars, bootVars, statusVars, observerVars, qaVars>>

\* The phone numbers a lead or the prompt of test-sms.js may carry.
RawNumbers == UNION {[1..n -> RawChars] : n \in 0..MaxRawLen}

\* No number is being formatted.
NoLead == [raw |-> <<>>, pc |-> "none", phone |-> <<>>, twice |-> FALSE, again |-> <<>>]

\* Lines 704-717 and 752-755 of index.js: the number of a lead is formatted
\* and tested; the lead is skipped, or the outreach message is sent to the
\* formatted number and the conversation is stored under it.
FormatLead ==
    /\ fmt.pc = "lead"
    /\ fmt' = [fmt EXCEPT !.phone = FormatPhoneNumber(fmt.raw),
                          !.pc = IF InvalidPhone(FormatPhoneNumber(fmt.raw))
                                 THEN "skipped" ELSE "contacted"]
    /\ UNCHANGED FormatUnchanged

\* Lines 83-89 of test-sms.js: the number typed at the prompt is formatted
\* and given to testSMS.
FormatTestNumber ==
    /\ fmt.pc = "lead"
    /\ fmt' = [fmt EXCEPT !.phone = TestFormatPhoneNumber(fmt.raw), !.pc = "tested"]
    /\ UNCHANGED FormatUnchanged

\* The formatted number is given to the same formatting once more.
FormatAgain ==
    /\ fmt.pc \in {"skipped", "contacted", "tested"}
    /\ ~fmt.twice
    /\ fmt' = [fmt EXCEPT !.twice = TRUE,
                          !.again = IF fmt.pc = "tested" THEN TestFormatPhoneNumber(fmt.phone)
                                    ELSE FormatPhoneNumber(fmt.phone)]
    /\ UNCHANGED FormatUnchanged

(* ------------------------- time and the timer ------------------------- *)

TimerUnchanged == <<variant, rateLimiter, smsConversations, conversations, messages,
                    reqs, handlers, smsErrors, deliveries, leadVars, hookVars, voiceVars, bootVars, statusVars, observerVars, qaVars, fmtVars>>

\* The clock advances by TickStep while the timer is not due.
Tick ==
    /\ sweeps < MaxSweeps
    /\ now + TickStep < nextSweep
    /\ now + TickStep - (nextSweep - SWEEP_INTERVAL_MS) <= MaxOffset
    /\ now' = now + TickStep
    /\ UNCHANGED <<nextSweep, sweeps, processedMessages>>
    /\ UNCHANGED TimerUnchanged

\* The clock advances to the instant at which the timer is due.
AdvanceToSweep ==
    /\ sweeps < MaxSweeps
    /\ now < nextSweep
    /\ now' = nextSweep
    /\ UNCHANGED <<nextSweep, sweeps, processedMessages>>
    /\ UNCHANGED TimerUnchanged

\* The setInterval callback, index.js 1090-1101 (index-supabase.js 465-476).
Sweep ==
    /\ now = nextSweep
    /\ processedMessages' = Swept(processedMessages)
    /\ nextSweep' = now + SWEEP_INTERVAL_MS
    /\ sweeps' = sweeps + 1
    /\ UNCHANGED now
    /\ UNCHANGED TimerUnchanged

(* --------------------------- specification ---------------------------- *)

\* The module state when the process starts.
FreshMaps ==
    /\ now = StartTime
    /\ nextSweep = StartTime + SWEEP_INTERVAL_MS
    /\ sweeps = 0
    /\ processedMessages = EmptyMap
    /\ rateLimiter = EmptyMap
    /\ smsConversations = EmptyMap
    /\ conversations = <<>>
    /\ messages = <<>>
    /\ reqs = <<>>
    /\ handlers = EmptyMap
    /\ smsErrors = {}
    /\ deliveries = EmptyMap
    /\ leadReqs = <<>>
    /\ hooks = <<>>
    /\ sessions = EmptyMap
    /\ sessionObjs = <<>>
    /\ conns = <<>>
    /\ statusReqs = <<>>
    /\ connectedClients = EmptyMap
    /\ observerSockets = <<>>
    /\ broadcasts = 0
    /\ qaReqs = <<>>

\* The state of a process that has just started to serve, with every
\* variable of the environment set.
Fresh ==
    /\ FreshMaps
    /\ boot = [env |-> ConfigNames, state |-> "listening", webhookUrl |-> "env"]
    /\ fmt = NoLead

Init == variant \in Variants /\ Fresh

Outcomes == {"choice", "nochoice", "error"}

Next ==
    \/ \E From \in Senders, MessageSid \in Sids : Sms(From, MessageSid)
    \/ \E rid \in Rids, ok \in BOOLEAN : SmsRelayInboundDone(rid, ok)
    \/ \E rid \in Rids, outcome \in Outcomes : SmsCompletionDone(rid, outcome)
    \/ \E rid \in Rids, ok \in BOOLEAN : SmsRelayOutboundDone(rid, ok)
    \/ \E From \in Senders, MessageSid \in Sids : SmsSupabase(From, MessageSid)
    \/ \E rid \in Rids, ok \in BOOLEAN : SbSelectDone(rid, ok)
    \/ \E rid \in Rids, ok \in BOOLEAN : SbInsertDone(rid, ok)
    \/ \E rid \in Rids, ok \in BOOLEAN : SbStoreUserDone(rid, ok)
    \/ \E rid \in Rids, outcome \in Outcomes : SbCompletionDone(rid, outcome)
    \/ \E rid \in Rids, ok \in BOOLEAN : SbStoreAssistantDone(rid, ok)
    \/ \E rid \in Rids, ok \in BOOLEAN : SbTwilioDone(rid, ok)
    \/ Tick
    \/ AdvanceToSweep
    \/ Sweep

Spec == Init /\ [][Next]_vars

\* The timer fires when due and time does not stop before it.
LiveSpec == Spec /\ WF_vars(Sweep) /\ WF_vars(AdvanceToSweep)

\* The ingress of index.js with the payloads a caller can send: /sms bodies
\* with or without From and MessageSid, /check-leads bodies of every shape.
IngressInit == Init /\ variant = "relay"

IngressNext ==
    \/ \E From \in Senders \cup {Undefined}, MessageSid \in Sids : Sms(From, MessageSid)
    \/ \E rid \in Rids, ok \in BOOLEAN : SmsRelayInboundDone(rid, ok)
    \/ \E rid \in Rids, outcome \in Outcomes : SmsCompletionDone(rid, outcome)
    \/ \E rid \in Rids, ok \in BOOLEAN : SmsRelayOutboundDone(rid, ok)
    \/ \E body \in LeadBodies : CheckLeads(body)
    \/ \E k \in Lids, outcome \in Outcomes : LeadCompletionDone(k, outcome)
    \/ \E k \in Lids, ok \in BOOLEAN : LeadRelayDone(k, ok)
    \/ Tick

IngressSpec == IngressInit /\ [][IngressNext]_vars

\* The /check-leads handlers of index.js and of index-supabase.js with
\* bodies of every shape.
LeadInit == Init

LeadNext ==
    \/ \E body \in LeadBodies : CheckLeads(body)
    \/ \E k \in Lids, outcome \in Outcomes : LeadCompletionDone(k, outcome)
    \/ \E k \in Lids, ok \in BOOLEAN : LeadRelayDone(k, ok)
    \/ \E body \in LeadBodies : CheckLeadsSupabase(body)
    \/ \E k \in Lids, ok \in BOOLEAN : SbLeadSelectDone(k, ok)
    \/ \E k \in Lids, ok \in BOOLEAN : SbLeadInsertDone(k, ok)
    \/ \E k \in Lids, outcome \in Outcomes : SbLeadCompletionDone(k, outcome)
    \/ \E k \in Lids, ok \in BOOLEAN : SbLeadStoreDone(k, ok)
    \/ \E k \in Lids, ok \in BOOLEAN : SbLeadTwilioDone(k, ok)

LeadSpec == LeadInit /\ [][LeadNext]_vars

\* The calls of sendToWebhook against an endpoint that answers, fails or
\* stalls at any time.
WebhookInit == Init /\ variant = "relay"

WebhookNext ==
    \/ SendToWebhook
    \/ \E h \in Hids, ok \in BOOLEAN : HookHeaders(h, ok)
    \/ \E h \in Hids : HookFetchError(h)
    \/ \E h \in Hids : HookTimeout(h)
    \/ \E h \in Hids : HookBody(h)
    \/ \E h \in Hids : HookBodyError(h)
    \/ HookTick

WebhookSpec == WebhookInit /\ [][WebhookNext]_vars

\* The /sms handler of index.js at lines 166-329.
LegacyInit == variant = "legacy" /\ Fresh

LegacyNext ==
    \/ \E userPhone \in Senders : LegacySms(userPhone)
    \/ \E rid \in Rids, outcome \in Outcomes : LegacyCompletionDone(rid, outcome)
    \/ \E rid \in Rids, ok \in BOOLEAN : LegacyTwilioDone(rid, ok)
    \/ \E rid \in Rids, ok \in BOOLEAN : LegacyWebhookDone(rid, ok)
    \/ Tick

LegacySpec == LegacyInit /\ [][LegacyNext]_vars

\* The voice bridge of index.js.
VoiceInit == Init /\ variant = "relay"

SessionIds == InOrder(SessionIdSeq, {conns[c].sessionId : c \in Cids})

VoiceNext ==
    \/ \E sessionId \in SessionIds : MediaStream(sessionId)
    \/ \E c \in Cids : AiOpen(c)
    \/ \E c \in Cids : SendSessionUpdate(c)
    \/ \E c \in Cids : AiClosed(c)
    \/ \E c \in Cids, frame \in ProviderFrames : OpenAiMessage(c, frame)
    \/ \E c \in Cids, frame \in TwilioFrames : TwilioMessage(c, frame)
    \/ \E c \in Cids : TelephonyClose(c)
    \/ \E c \in Cids, outcome \in ExtractOutcomes : ExtractCompletionDone(c, outcome)
    \/ \E c \in Cids, ok \in BOOLEAN : ExtractWebhookDone(c, ok)

VoiceSpec == VoiceInit /\ [][VoiceNext]_vars

\* The calls the extraction awaits end, with a result or with an error.
LiveVoiceSpec ==
    /\ VoiceSpec
    /\ \A c \in 1..MaxConns :
          /\ WF_vars(\E outcome \in ExtractOutcomes : ExtractCompletionDone(c, outcome))
          /\ WF_vars(\E ok \in BOOLEAN : ExtractWebhookDone(c, ok))

\* The /message-status callbacks of index.js next to its /sms requests.
StatusInit == Init /\ variant = "relay"

StatusNext ==
    \/ \E From \in Senders, MessageSid \in Sids : Sms(From, MessageSid)
    \/ \E rid \in Rids, ok \in BOOLEAN : SmsRelayInboundDone(rid, ok)
    \/ \E rid \in Rids, outcome \in Outcomes : SmsCompletionDone(rid, outcome)
    \/ \E rid \in Rids, ok \in BOOLEAN : SmsRelayOutboundDone(rid, ok)
    \/ \E hasBody \in BOOLEAN : MessageStatus(hasBody)
    \/ \E k \in Stids, result \in RelayResults : MessageStatusRelayDone(k, result)
    \/ Tick

StatusSpec == StatusInit /\ [][StatusNext]_vars

\* The dashboard sockets of index-supabase.js and the broadcasts.
DashboardInit == Init /\ variant = "direct"

DashboardNext ==
    \/ \E clientId \in ClientIds \cup {NoClientId} : ObserverConnect(clientId)
    \/ \E s \in Sockets : ObserverClose(s)
    \/ BroadcastMessage

DashboardSpec == DashboardInit /\ [][DashboardNext]_vars

\* The /api/question-answer handlers of the assistant server, a process of its
\* own: the state of the other entry points keeps its initial value.
QaInit == Init /\ variant = "relay"

QaStep(k) ==
    \/ \E ok \in BOOLEAN : QaThreadDone(k, ok)
    \/ \E ok \in BOOLEAN : QaMessageDone(k, ok)
    \/ \E ok \in BOOLEAN : QaRunDone(k, ok)
    \/ \E st \in RunStatuses : QaRetrieveDone(k, st)
    \/ QaRetrieveFailed(k)
    \/ QaTimer(k)
    \/ \E found \in BOOLEAN : QaListDone(k, found)

QaNext ==
    \/ \E hasThread \in BOOLEAN : QuestionAnswer(hasThread)
    \/ \E k \in 1..MaxQaReq : QaStep(k)

QaSpec == QaInit /\ [][QaNext]_vars

\* Every call the handler waits for is answered and its timer fires.
QaLiveSpec == QaSpec /\ \A k \in 1..MaxQaReq : WF_vars(QaStep(k))

\* The formatting of every phone number of the bounded set.
FormatInit ==
    /\ variant = "relay"
    /\ FreshMaps
    /\ boot = [env |-> ConfigNames, state |-> "listening", webhookUrl |-> "env"]
    /\ \E raw \in RawNumbers : fmt = [NoLead EXCEPT !.raw = raw, !.pc = "lead"]

FormatNext ==
    \/ FormatLead
    \/ FormatTestNumber
    \/ FormatAgain

FormatSpec == FormatInit /\ [][FormatNext]_vars

\* The start of index.js under every environment.
StartupInit ==
    /\ variant = "relay"
    /\ \E env \in SUBSET ConfigNames :
          boot = [env |-> env, state |-> "starting", webhookUrl |-> "none"]
    /\ FreshMaps
    /\ fmt = NoLead

StartupNext ==
    \/ LoadConfig
    \/ \E ok \in BOOLEAN : Listen(ok)

StartupSpec == StartupInit /\ [][StartupNext]_vars

(* ------------------------------ properties ---------------------------- *)

RATE_LIMITED_TEXT == "Message rate limited"

DUPLICATE_TEXT == "Duplicate message ignored"

\* The guard turned request r away: its response says so.
Rejected(r) == reqs[r].message \in {RATE_LIMITED_TEXT, DUPLICATE_TEXT}

Accepted(r) == ~Rejected(r)

HasSid(r) == reqs[r].MessageSid # NoSid

SameSid(q, r) == HasSid(q) /\ reqs[q].MessageSid = reqs[r].MessageSid

SameSender(q, r) == reqs[q].From = reqs[r].From

Gap(q, r) == reqs[r].at - reqs[q].at

\* The histories of the relay variant in which request r put an entry.
HistoryEntriesOf(r) ==
    {s \in DOMAIN smsConversations :
        \E i \in 1..Len(smsConversations[s]) :
            /\ smsConversations[s][i].role # "system"
            /\ smsConversations[s][i].content = r}

\* The rows request r put in the direct variant's messages table.
MessageRowsOf(r) == {i \in 1..Len(messages) : messages[i].content = r}

\* Request r has started no call and appended nothing.
NoTrace(r) == r \notin DOMAIN handlers /\ HistoryEntriesOf(r) = {} /\ MessageRowsOf(r) = {}

\* Request r went past the guard into the turn handling: its user entry is
\* in the history (relay); its handler runs or has answered (direct).
Processed(r) ==
    /\ Accepted(r)
    /\ variant = "relay" =>
          /\ MapHas(smsConversations, reqs[r].From)
          /\ UserEntry(r) \in Range(smsConversations[reqs[r].From])
    /\ variant = "direct" => (r \in DOMAIN handlers \/ reqs[r].status # 0)

InCompletion(r) == At(r, "completion")

\* C1: at most one completion call per sender is in flight at any instant.
C1_OneCompletionPerSender ==
    \A q \in Rids, r \in Rids :
        q # r /\ SameSender(q, r) => ~(InCompletion(q) /\ InCompletion(r))

\* C2: a request whose MessageSid an accepted request recorded less than
\* 60 seconds before it starts no call, appends nothing, and is answered
\* with success.
C2_DuplicateInWindowIsNoOp ==
    \A q \in Rids, r \in Rids :
        (q < r /\ Accepted(q) /\ SameSid(q, r) /\ Gap(q, r) < MESSAGE_DEDUPE_WINDOW_MS)
            => (reqs[r].status = 200 /\ NoTrace(r))

\* C2 witness: such a replay, from a sender the rate limit lets through, so
\* that the duplicate test is what stops it.
C2_Witness ==
    \E q \in Rids, r \in Rids :
        /\ q < r /\ Accepted(q) /\ SameSid(q, r)
        /\ Gap(q, r) < MESSAGE_DEDUPE_WINDOW_MS
        /\ Gap(q, r) >= SWEEP_INTERVAL_MS
        /\ reqs[r].message = DUPLICATE_TEXT

\* C3: a MessageSid that arrives again more than 60 seconds after its
\* earlier arrivals is accepted and processed like a new message.
C3_ReplayAfterWindowAccepted ==
    \A r \in Rids :
        (/\ HasSid(r)
         /\ \E q \in Rids : q < r /\ SameSid(q, r)
         /\ \A q \in Rids : (q < r /\ SameSid(q, r)) => Gap(q, r) > MESSAGE_DEDUPE_WINDOW_MS)
            => Processed(r)

\* r is the first request of its sender after q.
NextOfSender(q, r) ==
    q < r /\ SameSender(q, r) /\ \A x \in Rids : (q < x /\ x < r) => ~SameSender(q, x)

FreshSid(r) == \A x \in Rids : x < r => reqs[x].MessageSid # reqs[r].MessageSid

\* C4: of two requests of one sender with distinct message ids, the second
\* is answered with success and not processed when it arrives less than one
\* second after the first was accepted, and both are processed when it
\* arrives one second or more after.
C4_RateLimit ==
    \A q \in Rids, r \in Rids :
        (q < r /\ SameSender(q, r) /\ Accepted(q) /\ HasSid(q) /\ HasSid(r)
              /\ ~SameSid(q, r))
            => /\ Gap(q, r) < RATE_LIMIT_MS => (reqs[r].status = 200 /\ NoTrace(r))
               /\ (Gap(q, r) >= RATE_LIMIT_MS /\ NextOfSender(q, r) /\ FreshSid(r))
                     => (Processed(q) /\ Processed(r))

\* C4 witness: the second request arrives exactly one second after the
\* first and both are processed.
C4_Witness ==
    \E q \in Rids, r \in Rids :
        /\ q < r /\ SameSender(q, r) /\ Accepted(q) /\ HasSid(q) /\ HasSid(r)
        /\ ~SameSid(q, r) /\ Gap(q, r) = RATE_LIMIT_MS
        /\ Processed(q) /\ Processed(r)

\* C4, the other case: the second request arrives within the second and is
\* turned away.
C4_WitnessLimited ==
    \E q \in Rids, r \in Rids :
        /\ q < r /\ SameSender(q, r) /\ Accepted(q) /\ HasSid(q) /\ HasSid(r)
        /\ ~SameSid(q, r) /\ Gap(q, r) > 0 /\ Gap(q, r) < RATE_LIMIT_MS
        /\ reqs[r].status = 200 /\ NoTrace(r)

\* C5: a request whose MessageSid is recorded within the window is decided
\* DUPLICATE, also when its sender's last accepted request is less than one
\* second old.
C5_DuplicateDecidedFirst ==
    \A q \in Rids, r \in Rids :
        (q < r /\ Accepted(q) /\ SameSid(q, r) /\ Gap(q, r) < MESSAGE_DEDUPE_WINDOW_MS)
            => reqs[r].message = DUPLICATE_TEXT

\* The arrival time of the last accepted request of sender s (0: none).
LastAccepted(s) ==
    LET acc == {r \in Rids : reqs[r].From = s /\ Accepted(r)}
    IN  IF acc = {} THEN 0 ELSE reqs[CHOOSE r \in acc : \A x \in acc : x <= r].at

\* C6: only an accepted request changes the guard's maps: the rate limiter
\* holds the time of each sender's last accepted request, the dedupe map
\* only ids of accepted requests.
C6_OnlyAcceptMutates ==
    /\ \A s \in Range(SenderSeq) : LastMessageTime(s) = LastAccepted(s)
    /\ \A m \in DOMAIN processedMessages :
          \E r \in Rids : Accepted(r) /\ reqs[r].MessageSid = m
                             /\ reqs[r].at = processedMessages[m]

\* An entry of the dedupe map older than the window.
Old(m) == now - processedMessages[m] > MESSAGE_DEDUPE_WINDOW_MS

SweepStep == sweeps' = sweeps + 1

\* C7: a run of the cleanup removes exactly the entries older than 60
\* seconds and leaves the others as they are (all of them when none is
\* older), and no step at all removes or changes an entry that is not older
\* than the window.
C7_SweepExact ==
    [][/\ SweepStep =>
            /\ DOMAIN processedMessages' = {m \in DOMAIN processedMessages : ~Old(m)}
            /\ (\A m \in DOMAIN processedMessages : ~Old(m))
                  => processedMessages' = processedMessages
       /\ \A m \in DOMAIN processedMessages :
             ~Old(m) => /\ m \in DOMAIN processedMessages'
                        /\ processedMessages'[m] = processedMessages[m]]_vars

\* C7 witness: the cleanup has removed the entry of one accepted request,
\* older than the window, and kept the entry of another, which is not.
C7_Witness ==
    \E q \in Rids, r \in Rids :
        /\ Accepted(q) /\ HasSid(q) /\ Accepted(r) /\ HasSid(r)
        /\ now - reqs[q].at > MESSAGE_DEDUPE_WINDOW_MS
        /\ reqs[q].MessageSid \notin DOMAIN processedMessages
        /\ now - reqs[r].at <= MESSAGE_DEDUPE_WINDOW_MS
        /\ now - reqs[r].at >= SWEEP_INTERVAL_MS
        /\ reqs[r].MessageSid \in DOMAIN processedMessages
        /\ processedMessages[reqs[r].MessageSid] = reqs[r].at

\* C8: an entry of the dedupe map that is older than the window is
\* eventually removed, whatever arrives in the meantime.
C8_OldEntryEventuallyPurged ==
    \A m \in Range(SidSeq) :
        (m \in DOMAIN processedMessages /\ Old(m)) ~> (m \notin DOMAIN processedMessages)

\* C8 witness: a replay arrived while the entry was older than the window
\* (and was turned away), and the entry has been removed since.
C8_Witness ==
    \E q \in Rids, r \in Rids :
        /\ q < r /\ Accepted(q) /\ SameSid(q, r)
        /\ Gap(q, r) > MESSAGE_DEDUPE_WINDOW_MS
        /\ reqs[r].message = DUPLICATE_TEXT
        /\ reqs[r].MessageSid \notin DOMAIN processedMessages

\* C9: the success acknowledgment of an accepted request is sent before its
\* completion call is issued.
C9_AckBeforeCompletion ==
    \A r \in Rids : InCompletion(r) => reqs[r].status = 200

\* C10: no /sms request is answered with an error response, whatever the
\* completion call, the store or the delivery does.
C10_NeverErrorResponse ==
    \A r \in Rids : reqs[r].status \in {0, 200}

\* A client-error status.
ClientError(status) == status >= 400 /\ status < 500

MalformedLeads(k) == leadReqs[k].body.kind # "leads"

\* C11: an /sms request without From and a /check-leads request without a
\* well-formed leads list are answered with a client-error status, and the
\* former leaves no entry in the dedupe map, the rate-limit map or the
\* histories.
C11_MalformedRejected ==
    /\ \A r \in Rids :
          reqs[r].From = Undefined =>
              /\ ClientError(reqs[r].status)
              /\ ~MapHas(rateLimiter, Undefined)
              /\ ~MapHas(smsConversations, Undefined)
              /\ ~MapHas(processedMessages, reqs[r].MessageSid)
    /\ \A k \in Lids : MalformedLeads(k) => ClientError(leadReqs[k].status)

\* The completion call of request r failed or returned no choice.
CompletionFailed(r) == <<r, "completion">> \in smsErrors

HasAssistantEntry(r) ==
    /\ MapHas(smsConversations, reqs[r].From)
    /\ AssistantEntry(r) \in Range(smsConversations[reqs[r].From])

\* C12: in the /sms handler of index.js, when the completion call of an
\* accepted request fails or returns no choice, the turn is abandoned: no
\* assistant entry is appended, no relay of a reply is started or attempted,
\* the caller keeps the acknowledgment it got, and the sender's next message
\* (one second or more later, with a new id or none) is processed.
C12_FailedCompletionAbandonsTurn ==
    \A r \in Rids :
        (variant = "relay" /\ CompletionFailed(r)) =>
            /\ ~HasAssistantEntry(r)
            /\ r \notin DOMAIN handlers
            /\ <<r, "outbound webhook">> \notin smsErrors
            /\ reqs[r].status = 200
            /\ reqs[r].message = "SMS received, processing"
            /\ \A q \in Rids :
                  (NextOfSender(r, q) /\ Gap(r, q) >= RATE_LIMIT_MS /\ FreshSid(q))
                      => Processed(q)

\* C12 witness: after a turn abandoned for a failed completion call, the
\* next message of the sender got its reply into the history.
C12_Witness ==
    \E r \in Rids, q \in Rids :
        /\ variant = "relay" /\ CompletionFailed(r)
        /\ NextOfSender(r, q) /\ HasSid(q)
        /\ ~HasAssistantEntry(r) /\ HasAssistantEntry(q)

InboundRelayFailed(r) == <<r, "inbound webhook">> \in smsErrors

OutboundRelayFailed(r) == <<r, "outbound webhook">> \in smsErrors

\* The completion call of request r has been issued.
CompletionIssued(r) ==
    At(r, "completion") \/ At(r, "relayOut") \/ CompletionFailed(r) \/ HasAssistantEntry(r)

\* C13: a failed relay post never aborts its turn. After a failed relay of
\* the inbound message the completion call is issued and, once it has
\* returned a choice, the assistant entry is in the history; after a failed
\* relay of the reply the handler has ended, the reply is in the history,
\* and the acknowledgment stands.
C13_RelayFailureNeverAborts ==
    \A r \in Rids :
        /\ InboundRelayFailed(r) =>
              /\ CompletionIssued(r)
              /\ (~At(r, "completion") /\ ~CompletionFailed(r)) => HasAssistantEntry(r)
        /\ OutboundRelayFailed(r) =>
              /\ r \notin DOMAIN handlers
              /\ HasAssistantEntry(r)
              /\ ~CompletionFailed(r)
              /\ reqs[r].status = 200

\* C13 witness: a turn both of whose relay posts failed has its reply in
\* the history and has ended.
C13_Witness ==
    \E r \in Rids :
        /\ InboundRelayFailed(r) /\ OutboundRelayFailed(r)
        /\ HasAssistantEntry(r) /\ r \notin DOMAIN handlers /\ reqs[r].status = 200

\* C14: every call of sendToWebhook ends at most 5 seconds after it was
\* started: one that has ended did so within 5 seconds, and none is still
\* pending after 5 seconds.
C14_RelayEndsWithinTimeout ==
    \A h \in Hids :
        IF hooks[h].pc = "done"
        THEN hooks[h].ended - hooks[h].started <= WEBHOOK_TIMEOUT_MS
        ELSE now - hooks[h].started <= WEBHOOK_TIMEOUT_MS

\* C14, the part the code keeps: a call whose endpoint has sent no status
\* line is ended by the abort no later than 5 seconds after its start.
C14_PendingFetchAborted ==
    \A h \in Hids :
        hooks[h].pc = "fetch" => now - hooks[h].started <= WEBHOOK_TIMEOUT_MS

\* C15: the reply to an /sms request leaves through one delivery mode
\* only: never both a Twilio send and a relay post for the same request.
C15_OneDeliveryMode ==
    \A r \in Rids : ~(Sent(r, "twilio") > 0 /\ Sent(r, "relay") > 0)

\* C16: in direct mode the Twilio send is started at most once for a
\* request; a request answered with the delivery error had exactly one
\* send, its handler has ended, and the error went to the caller as a 500;
\* and a send that has ended left either the success answer or that error.
C16_SendAtMostOnce ==
    \A r \in Rids :
        /\ Sent(r, "twilio") <= 1
        /\ reqs[r].message = SEND_ERROR =>
              (Sent(r, "twilio") = 1 /\ reqs[r].status = 500 /\ r \notin DOMAIN handlers)
        /\ (variant = "direct" /\ Sent(r, "twilio") = 1 /\ r \notin DOMAIN handlers) =>
              \/ reqs[r].status = 200
              \/ reqs[r].status = 500 /\ reqs[r].message = SEND_ERROR

\* C16 witness: a Twilio send of the direct handler failed; it was the only
\* one for its request and the caller got the delivery error.
C16_Witness ==
    \E r \in Rids :
        /\ variant = "direct" /\ reqs[r].message = SEND_ERROR
        /\ Sent(r, "twilio") = 1 /\ r \notin DOMAIN handlers

\* The session object o has an entry in the session map.
InSessions(o) == \E k \in DOMAIN sessions : sessions[k] = o

\* The connections that hold the session object o.
ConnsOf(o) == {c \in Cids : conns[c].session = o}

\* C17: for every voice session the extraction is invoked exactly once, when
\* the telephony stream closes and not before; the entry of the session is
\* in the session map while a stream of the session is open and is absent
\* once the close handler has finished.
C17_ExtractionOncePerSession ==
    \A o \in Oids :
        /\ sessionObjs[o].extractions <= 1
        /\ (\E c \in ConnsOf(o) : conns[c].open) =>
               (sessionObjs[o].extractions = 0 /\ InSessions(o))
        /\ (\A c \in ConnsOf(o) : ~conns[c].open) => sessionObjs[o].extractions = 1
        /\ (\A c \in ConnsOf(o) : conns[c].pc = "done") => ~InSessions(o)

\* C17, the part the code keeps: the same holds in the behaviours in which
\* no two connections carry the same session key.
C17_WithDistinctKeys ==
    (\A c, d \in Cids : c # d => conns[c].sessionId # conns[d].sessionId)
        => C17_ExtractionOncePerSession

IsPrefix(a, b) == Len(a) <= Len(b) /\ SubSeq(b, 1, Len(a)) = a

\* One line per frame, in the order of the frames.
RECURSIVE Lines(_)
Lines(frames) ==
    IF frames = <<>> THEN <<>> ELSE <<LineOf(Head(frames))>> \o Lines(Tail(frames))

\* C19: the transcript of a session is, in the order of arrival, one User
\* line per transcription-completed frame and one Agent line per
\* response-completed frame, and every step leaves the earlier transcript
\* as a prefix of the later one.
C19_TranscriptAppendOnly ==
    [][/\ \A o \in Oids :
             IsPrefix(sessionObjs[o].transcript, sessionObjs'[o].transcript)
       /\ \A o \in 1..Len(sessionObjs') :
             /\ sessionObjs'[o].transcript = Lines(sessionObjs'[o].arrived)
             /\ \A i \in 1..Len(sessionObjs'[o].arrived) :
                   sessionObjs'[o].transcript[i].tag =
                       IF sessionObjs'[o].arrived[i].type = TRANSCRIPTION_COMPLETED
                       THEN "User" ELSE "Agent"]_vars

C19_Witness ==
    \E o \in Oids :
        /\ Len(sessionObjs[o].transcript) = 2
        /\ sessionObjs[o].transcript[1] = TranscriptLine("User", <<"o", "k">>)
        /\ sessionObjs[o].transcript[2] = TranscriptLine("Agent", AGENT_NOT_FOUND)

\* C20: a step in which a frame fails to parse changes nothing but the
\* error log of its connection: transcript and stream id of every session,
\* the session map, the frames sent on either socket and the state of both
\* sockets stay as they are, so the frames that follow are handled as before.
C20_MalformedFrameDropped ==
    [][\A c \in Cids :
          Len(conns'[c].dropped) > Len(conns[c].dropped) =>
              /\ sessionObjs' = sessionObjs
              /\ sessions' = sessions
              /\ conns' = [conns EXCEPT ![c].dropped = conns'[c].dropped]]_vars

C20_Witness ==
    \E c \in Cids :
        /\ sessionObjs[conns[c].session].streamSid # NullSid
        /\ \E i, j \in 1..Len(conns[c].dropped) :
              conns[c].dropped[i] = "twilio" /\ conns[c].dropped[j] = "openai"

\* C21: a connection whose companion socket has failed or closed is draining:
\* its telephony side counts as closed and its transcript has been handed to
\* the extraction, whether or not the telephony provider has disconnected.
C21_ErrorStartsDraining ==
    \A c \in Cids :
        conns[c].ai = "CLOSED" =>
            (~conns[c].open /\ sessionObjs[conns[c].session].extractions >= 1)

\* C22: two connections that are open at the same time hold different
\* session objects, so that a frame of one changes neither the transcript nor
\* the stream id of the other, and the entry of an open connection is in the
\* session map whatever other connections have closed.
C22_SessionsIsolated ==
    /\ \A c, d \in Cids :
          (c # d /\ conns[c].open /\ conns[d].open) => conns[c].session # conns[d].session
    /\ \A c \in Cids : conns[c].open => InSessions(conns[c].session)

\* C23: no media frame is sent to the telephony socket without the stream
\* id a start frame has announced.
C23_MediaCarriesStreamSid ==
    \A c \in Cids : \A i \in 1..Len(conns[c].toTwilio) : conns[c].toTwilio[i] \in StreamSids

\* C24: on the companion socket of a connection at most one session.update
\* frame is sent, and every input_audio_buffer.append frame comes after it.
C24_SessionUpdateFirst ==
    \A c \in Cids :
        /\ Cardinality({i \in 1..Len(conns[c].toAi) : conns[c].toAi[i] = "session.update"}) <= 1
        /\ \A i \in 1..Len(conns[c].toAi) :
              conns[c].toAi[i] = "input_audio_buffer.append" =>
                  \E j \in 1..(i - 1) : conns[c].toAi[j] = "session.update"

\* C28: a process that serves requests has found OPENAI_API_KEY and
\* WEBHOOK_URL in its environment, and its relay address is the one of the
\* environment.
C28_RefusesToStart ==
    boot.state = "listening" =>
        /\ {"OPENAI_API_KEY", "WEBHOOK_URL"} \subseteq boot.env
        /\ boot.webhookUrl = "env"

\* C27: a /message-status callback whose relay post has been started has
\* been answered "Status received" with success before; the step in which
\* the relay post ends, with a result, an error or the abort of its timer,
\* changes neither that answer nor processedMessages, rateLimiter or any
\* history.
C27_AckBeforeRelay ==
    [][\A k \in 1..Len(statusReqs') :
          /\ statusReqs'[k].relay # "none" =>
                (statusReqs'[k].status = 200 /\ statusReqs'[k].message = "Status received")
          /\ (k \in Stids /\ statusReqs[k].pc = "relay" /\ statusReqs'[k].pc = "done") =>
                /\ statusReqs'[k].status = statusReqs[k].status
                /\ statusReqs'[k].message = statusReqs[k].message
                /\ processedMessages' = processedMessages
                /\ rateLimiter' = rateLimiter
                /\ smsConversations' = smsConversations]_vars

C27_Witness ==
    /\ \E k, j \in Stids :
          /\ statusReqs[k].relay = "error" /\ statusReqs[j].relay = "AbortError"
          /\ statusReqs[k].status = 200 /\ statusReqs[j].status = 200
    /\ processedMessages # EmptyMap
    /\ rateLimiter # EmptyMap
    /\ smsConversations # EmptyMap

\* The number of a lead without its non-digit characters and with a '+' in
\* front, when it does not start with '+'; the number as given otherwise.
Normalized(raw) ==
    IF raw # <<>> /\ raw[1] # "+"
    THEN <<"+">> \o SelectSeq(raw, LAMBDA ch : ch \in Digits)
    ELSE raw

\* A lead whose number is missing or too short once normalized.
Skippable(raw) == raw = <<>> \/ Len(Normalized(raw)) < 10

\* The calls of the given kind issued for lead i of request k.
CallsOf(r, i, call) == {j \in 1..Len(r.calls) : r.calls[j].lead = i /\ r.calls[j].call = call}

\* The number under which lead i of request r is to be contacted.
NumberOf(r, i) == Normalized(r.body.leads[i].phoneNumber)

\* A conversation of the number exists: a history that holds the system
\* entry (index.js), a row of the conversations table (index-supabase.js).
ConversationInitialized(phone) ==
    IF variant = "relay"
    THEN MapHas(smsConversations, phone) /\ SYSTEM_MESSAGE \in Range(smsConversations[phone])
    ELSE \E c \in 1..Len(conversations) : conversations[c] = phone

\* C25 as stated: once a /check-leads request with a list of leads is
\* answered, every call went to the normalized number, a lead whose number
\* is missing or shorter than 10 characters has no call, and every other
\* lead has its conversation initialized and exactly one delivery call.
C25_EveryValidLeadContacted ==
    \A k \in Lids :
        (leadReqs[k].pc = "done" /\ leadReqs[k].body.kind = "leads") =>
            \A i \in 1..Len(leadReqs[k].body.leads) :
                /\ \A j \in 1..Len(leadReqs[k].calls) :
                      leadReqs[k].calls[j].lead = i =>
                          leadReqs[k].calls[j].to = NumberOf(leadReqs[k], i)
                /\ IF Skippable(leadReqs[k].body.leads[i].phoneNumber)
                   THEN \A j \in 1..Len(leadReqs[k].calls) : leadReqs[k].calls[j].lead # i
                   ELSE /\ ConversationInitialized(NumberOf(leadReqs[k], i))
                        /\ Cardinality(CallsOf(leadReqs[k], i, "delivery")) = 1

\* C25, amended: every call goes to the normalized number; a lead whose
\* number is missing or shorter than 10 characters never has a call; every
\* other lead has at most one completion call and one delivery call, its
\* conversation is initialized when the delivery is issued, and it has
\* exactly one delivery call once the request is answered with success.
C25_ValidLeadContactedOnSuccess ==
    \A k \in Lids :
        leadReqs[k].body.kind = "leads" =>
            \A i \in 1..Len(leadReqs[k].body.leads) :
                /\ \A j \in 1..Len(leadReqs[k].calls) :
                      leadReqs[k].calls[j].lead = i =>
                          leadReqs[k].calls[j].to = NumberOf(leadReqs[k], i)
                /\ IF Skippable(leadReqs[k].body.leads[i].phoneNumber)
                   THEN \A j \in 1..Len(leadReqs[k].calls) : leadReqs[k].calls[j].lead # i
                   ELSE /\ Cardinality(CallsOf(leadReqs[k], i, "completion")) <= 1
                        /\ Cardinality(CallsOf(leadReqs[k], i, "delivery")) <= 1
                        /\ CallsOf(leadReqs[k], i, "delivery") # {} =>
                              ConversationInitialized(NumberOf(leadReqs[k], i))
                        /\ leadReqs[k].status = 200 =>
                              /\ ConversationInitialized(NumberOf(leadReqs[k], i))
                              /\ Cardinality(CallsOf(leadReqs[k], i, "delivery")) = 1

C25_Witness ==
    \E k \in Lids :
        /\ leadReqs[k].status = 200
        /\ Len(leadReqs[k].body.leads) = 2
        /\ leadReqs[k].body.leads[1].phoneNumber =
              <<"1", "5", "5", "5", "-", "1", "2", "3", "0", "0", "0", "1">>
        /\ leadReqs[k].body.leads[2].phoneNumber = <<"5", "5", "5">>
        /\ Len(leadReqs[k].calls) = 2
        /\ leadReqs[k].calls[2] =
              [lead |-> 1, call |-> "delivery",
               to |-> <<"+", "1", "5", "5", "5", "1", "2", "3", "0", "0", "0", "1">>]

\* The outreach to lead i of request k is recorded: in the history of the
\* number (index.js), in the messages table (index-supabase.js).
OutreachRecordedIn(histories, rows, convs, k, phone, i) ==
    IF variant = "relay"
    THEN MapHas(histories, phone) /\ OutreachEntry(k, i) \in Range(histories[phone])
    ELSE \E j \in 1..Len(rows) :
            /\ rows[j].sender = "assistant"
            /\ rows[j].content = <<k, i>>
            /\ convs[rows[j].conversation_id] = phone

OutreachRecorded(k, phone, i) ==
    OutreachRecordedIn(smsConversations, messages, conversations, k, phone, i)

\* C26: the calls of a /check-leads request follow the order of its list
\* and skip no lead that is to be contacted; the answer is 200 with success
\* only if every such lead got its completion and its delivery, and 500 with
\* the keys error, message, details otherwise; the step that answers 500
\* issues no call and none follows it; every delivery issued stays recorded
\* and no history or row is taken back.
C26_FirstFailureEndsRequest ==
    [][/\ \A k \in 1..Len(leadReqs') :
             LET r == leadReqs'[k]
                 valid == {i \in 1..Len(r.body.leads) :
                              ~Skippable(r.body.leads[i].phoneNumber)}
             IN  /\ \A a, b \in 1..Len(r.calls) : a < b => r.calls[a].lead <= r.calls[b].lead
                 /\ \A a \in 1..Len(r.calls) : \A i \in valid :
                       i < r.calls[a].lead => CallsOf(r, i, "delivery") # {}
                 /\ r.pc = "done" => r.status \in {200, 500}
                 /\ r.status = 200 =>
                       /\ "success" \in r.envelope
                       /\ \A i \in valid : /\ CallsOf(r, i, "completion") # {}
                                             /\ CallsOf(r, i, "delivery") # {}
                 /\ r.status = 500 => r.envelope = {"error", "message", "details"}
                 /\ (k \in Lids /\ leadReqs[k].status = 500) => r = leadReqs[k]
                 /\ (k \in Lids /\ r.status = 500) => r.calls = leadReqs[k].calls
                 /\ \A a \in 1..Len(r.calls) :
                       r.calls[a].call = "delivery" =>
                           OutreachRecordedIn(smsConversations', messages', conversations',
                                              k, r.calls[a].to, r.calls[a].lead)
       /\ \A s \in DOMAIN smsConversations :
             /\ s \in DOMAIN smsConversations'
             /\ IsPrefix(smsConversations[s], smsConversations'[s])
       /\ IsPrefix(conversations, conversations')
       /\ IsPrefix(messages, messages')]_vars

C26_Witness ==
    \E k \in Lids :
        /\ leadReqs[k].status = 500
        /\ Len(leadReqs[k].body.leads) = 2
        /\ Len(leadReqs[k].calls) = 3
        /\ leadReqs[k].calls[2].call = "delivery"
        /\ leadReqs[k].calls[3].lead = 2
        /\ OutreachRecorded(k, leadReqs[k].calls[2].to, 1)

\* Request r is in the list and is the first request of its sender.
FirstOfSender(list, r) ==
    r \in 1..Len(list) /\ \A q \in 1..(r - 1) : list[q].From # list[r].From

\* The history a first request leaves when it is accepted.
FirstHistory(r) == <<SYSTEM_MESSAGE, UserEntry(r)>>

\* C29: in index.js, for an accepted request r that is the first of its
\* sender: the step that accepts it leaves the history <<system, user>>; the
\* step that starts its completion call passes exactly that history; the
\* relay of the reply is started at most once, in the step in which the
\* completion yields its text, and that step leaves the assistant entry
\* of r at the end of the history.
C29_FirstTurn ==
    [][variant = "relay" =>
          \A r \in 1..Len(reqs') :
              (FirstOfSender(reqs', r) /\ reqs'[r].message = "SMS received, processing") =>
                  LET From == reqs'[r].From
                      sentBefore == IF MapHas(deliveries, <<r, "relay">>)
                                    THEN deliveries[<<r, "relay">>] ELSE 0
                      sentAfter == IF MapHas(deliveries', <<r, "relay">>)
                                   THEN deliveries'[<<r, "relay">>] ELSE 0
                      starts == /\ ~At(r, "completion")
                                /\ MapHas(handlers', r) /\ handlers'[r].pc = "completion"
                      answered == /\ At(r, "completion")
                                  /\ MapHas(handlers', r) /\ handlers'[r].pc = "relayOut"
                  IN  /\ r \notin Rids => smsConversations'[From] = FirstHistory(r)
                      /\ starts => smsConversations'[From] = FirstHistory(r)
                      /\ sentAfter <= 1
                      /\ sentAfter # sentBefore <=> answered
                      /\ answered =>
                            smsConversations'[From][Len(smsConversations'[From])]
                                = AssistantEntry(r)]_vars

\* C29 without the history the completion call is given: the rest of the
\* first turn as the code runs it.
C29_FirstTurnButCompletionInput ==
    [][variant = "relay" =>
          \A r \in 1..Len(reqs') :
              (FirstOfSender(reqs', r) /\ reqs'[r].message = "SMS received, processing") =>
                  LET From == reqs'[r].From
                      sentBefore == IF MapHas(deliveries, <<r, "relay">>)
                                    THEN deliveries[<<r, "relay">>] ELSE 0
                      sentAfter == IF MapHas(deliveries', <<r, "relay">>)
                                   THEN deliveries'[<<r, "relay">>] ELSE 0
                      answered == /\ At(r, "completion")
                                  /\ MapHas(handlers', r) /\ handlers'[r].pc = "relayOut"
                  IN  /\ r \notin Rids => smsConversations'[From] = FirstHistory(r)
                      /\ sentAfter <= 1
                      /\ sentAfter # sentBefore <=> answered
                      /\ answered =>
                            smsConversations'[From][Len(smsConversations'[From])]
                                = AssistantEntry(r)]_vars

\* The history of sender s in the given map (none: the empty sequence).
HistoryIn(histories, s) == IF MapHas(histories, s) THEN histories[s] ELSE <<>>

\* The entry of sender s in the given rate-limit map (none: 0).
EntryIn(limiter, s) == IF MapHas(limiter, s) THEN limiter[s] ELSE 0

C31_OneSystemEntryFirst ==
    \A s \in DOMAIN smsConversations :
        /\ smsConversations[s] # <<>>
        /\ smsConversations[s][1].role = "system"
        /\ Cardinality({i \in 1..Len(smsConversations[s]) :
                            smsConversations[s][i].role = "system"}) = 1

\* C32: in index.js, every assistant entry of a history comes right after
\* the user entry of the same turn, and the step that starts the completion
\* call of a turn passes a history whose last entry is the user entry of
\* that turn.
C32_TurnsNotInterleaved ==
    [][variant = "relay" =>
          /\ \A s \in DOMAIN smsConversations' :
                \A i \in 1..Len(smsConversations'[s]) :
                    smsConversations'[s][i].role = "assistant" =>
                        /\ i > 1
                        /\ smsConversations'[s][i - 1].role = "user"
                        /\ smsConversations'[s][i - 1].content = smsConversations'[s][i].content
          /\ \A r \in Rids :
                (/\ ~At(r, "completion")
                 /\ MapHas(handlers', r) /\ handlers'[r].pc = "completion")
                => smsConversations'[reqs[r].From][Len(smsConversations'[reqs[r].From])]
                       = UserEntry(r)]_vars

C34_OneConversationPerPhone ==
    variant = "direct" =>
        /\ \A i, j \in 1..Len(conversations) :
              conversations[i] = conversations[j] => i = j
        /\ \A q \in DOMAIN handlers, r \in DOMAIN handlers :
              (SameSender(q, r) /\ handlers[q].conv # 0 /\ handlers[r].conv # 0)
                  => handlers[q].conv = handlers[r].conv

\* C35: a dashboard socket that connected with a client id and is open is
\* the socket registered under its id and has been sent every broadcast made
\* since it connected.
C35_ObserverStaysRegistered ==
    \A s \in Sockets :
        (observerSockets[s].open /\ observerSockets[s].clientId # NoClientId) =>
            /\ MapHas(connectedClients, observerSockets[s].clientId)
            /\ connectedClients[observerSockets[s].clientId] = s
            /\ observerSockets[s].got = broadcasts - observerSockets[s].since

\* C36: in index-supabase.js, once the handler of an /sms request has
\* ended, the messages table holds an assistant row of the request only if
\* its Twilio send succeeded, that is, if the request was answered 200.
C36_AssistantStoredOnlyIfSent ==
    variant = "direct" =>
        \A i \in 1..Len(messages) :
            (messages[i].sender = "assistant" /\ messages[i].content \notin DOMAIN handlers)
                => reqs[messages[i].content].status = 200

\* C37: after the telephony socket of a connection has closed, no step
\* leaves its companion socket open and no step sends a frame on it.
C37_CompanionClosedAfterDisconnect ==
    [][\A c \in Cids :
          ~conns[c].open =>
              /\ conns'[c].ai # "OPEN"
              /\ conns'[c].toAi = conns[c].toAi]_vars

\* C38: once the transcript of a session has been handed to the extraction,
\* no step appends to it, and no step sends a media frame to a telephony
\* socket that has closed.
C38_NothingAfterHandOver ==
    [][/\ \A o \in Oids :
             sessionObjs[o].extractions >= 1 =>
                 sessionObjs'[o].transcript = sessionObjs[o].transcript
       /\ \A c \in Cids :
             ~conns[c].open => conns'[c].toTwilio = conns[c].toTwilio]_vars


\* C39: every /api/question-answer request is answered, whatever statuses
\* the provider reports for its run.
C39_AlwaysAnswers ==
    \A k \in 1..MaxQaReq : (k \in Qids) ~> (k \in Qids /\ qaReqs[k].status # 0)


\* A phone number in the form the provider expects: '+' and digits only.
PlusDigits(phone) ==
    /\ phone # <<>>
    /\ phone[1] = "+"
    /\ \A i \in 2..Len(phone) : phone[i] \in Digits

\* Formatting a formatted number returns it unchanged.
FormatIdempotent == fmt.twice => fmt.again = fmt.phone

\* C40: the number to which /check-leads sends the outreach message and
\* under which it stores the conversation is '+' followed by digits only,
\* and formatting a formatted number returns it unchanged.
C40_PlusDigitsAndIdempotent ==
    /\ fmt.pc = "contacted" => PlusDigits(fmt.phone)
    /\ FormatIdempotent

\* The number of a contacted lead that did not start with '+' is '+'
\* followed by digits only.
PlusDigitsUnlessGivenPlus ==
    (fmt.pc = "contacted" /\ Head(fmt.raw) # "+") => PlusDigits(fmt.phone)

====
